---------------------------- MODULE Spec2Model ----------------------------
(***************************************************************************)
(* A model of the Amazon Product Advertising client of amazon-mcp          *)
(* (src/src/clients/amazon.ts): one searchProducts call as a state machine *)
(* (build the request document, serialize it, sign it, invoke fetch, read  *)
(* the reply text, normalize it), with the helpers it calls as operators.  *)
(*                                                                         *)
(* JavaScript values are tagged records; each tag has its own payload      *)
(* field, so that two values of different types are simply unequal:        *)
(*   undefined  [t |-> "undefined"]         null  [t |-> "null"]           *)
(*   string     [t |-> "string", s |-> ..]  array [t |-> "array", a |-> ..]*)
(*   number     [t |-> "number", n |-> ..]  NaN   [t |-> "number",         *)
(*   object     [t |-> "object", o |-> ..]            nan |-> TRUE]        *)
(* An object's o is the sequence of its properties [key, value] in         *)
(* insertion order.  A finite number is kept in thousandths: n = 19999 is  *)
(* 19.999.                                                                 *)
(***************************************************************************)
EXTENDS Integers, Sequences, FiniteSets, TLC

VARIABLES
    config,         \* the AppConfig the client was constructed with
    pc,             \* position of the searchProducts call
    input,          \* the call's SearchProductsInput
    requestBody,    \* the AmazonSearchItemsRequest, an ordered list of properties
    bodyJson,       \* JSON.stringify(requestBody)
    signed,         \* what buildSignedRequest returned, with the clock reading it used
    fetchArgs,      \* the arguments fetch was invoked with
    response,       \* the Response fetch resolved to (status, ok, body text)
    returned,       \* the SearchProductsResult the call resolved to
    thrown,         \* the error the call rejected with
    steps,          \* history: the steps the call performed, in order
    fetchCalls,     \* history: how often the call invoked fetch
    transportError, \* history: the error the transport rejected with
    callsMade,      \* history: calls started on this client
    signLog,        \* history: every signing the client performed
    toolArgs,       \* the arguments the search_products handler was invoked with
    toolResult,     \* what the search_products handler resolved to or rejected with
    flights,        \* the activations of searchProducts in flight at once, by number
    startup         \* the process's start: its environment, main's position and effects

vars == <<config, pc, input, requestBody, bodyJson, signed, fetchArgs, response,
          returned, thrown, steps, fetchCalls, transportError, callsMade, signLog,
          toolArgs, toolResult, flights, startup>>

\* The state of the activations in flight at once.
flightVars == <<flights>>

\* The state of the process's start.
startupVars == <<startup>>

\* The state of the search_products handler.
handlerVars == <<toolArgs, toolResult>>

-----------------------------------------------------------------------------
(* JavaScript values *)

Undefined == [t |-> "undefined"]
Null == [t |-> "null"]
NaN == [t |-> "number", nan |-> TRUE]
Str(s) == [t |-> "string", s |-> s]
Num(n) == [t |-> "number", n |-> n]
Arr(a) == [t |-> "array", a |-> a]
Obj(o) == [t |-> "object", o |-> o]

\* What no value has been assigned to yet (a variable of the model, not a JS value).
None == [t |-> "none"]

\* F(x), with x evaluated once and then used as a value
With(x, F(_)) == CHOOSE r \in {F(v) : v \in {x}} : TRUE

IsNullish(x) == x.t \in {"undefined", "null"}
IsString(x) == x.t = "string"
IsNumber(x) == x.t = "number"
IsFinite(x) == x.t = "number" /\ "n" \in DOMAIN x

\* ToBoolean: what `if (x)` and `!x` test.
Truthy(x) ==
    With(x, LAMBDA v :
        CASE v.t = "string" -> v.s # ""
          [] v.t = "number" -> IsFinite(v) /\ v.n # 0
          [] v.t \in {"object", "array"} -> TRUE
          [] OTHER -> FALSE)

P(k, v) == [key |-> k, value |-> v]

\* The keys of an object given as its ordered properties.
Keys(props) == {props[i].key : i \in 1..Len(props)}

\* The value of property k in an ordered property list (keys are unique).
PropValue(props, k) ==
    IF k \in Keys(props)
    THEN props[CHOOSE i \in 1..Len(props) : props[i].key = k].value
    ELSE Undefined

\* x.k on a value that is not nullish: own properties of objects, else undefined.
Get(x, k) ==
    With(x, LAMBDA v : IF v.t = "object" THEN PropValue(v.o, k) ELSE Undefined)

\* x?.k
OptGet(x, k) == With(x, LAMBDA v : IF IsNullish(v) THEN Undefined ELSE Get(v, k))

\* Mutant: the last element is taken.
OptFirst_Last(x) ==
    With(x, LAMBDA v : IF v.t = "array" /\ Len(v.a) > 0 THEN v.a[Len(v.a)] ELSE Undefined)

\* x?.[0], for x an array or absent (as AmazonItem declares Listings)
OptFirst(x) ==
    With(x, LAMBDA v : IF v.t = "array" /\ Len(v.a) > 0 THEN v.a[1] ELSE Undefined)

\* a ?? b
Coalesce(a, b) == With(a, LAMBDA v : IF IsNullish(v) THEN b ELSE v)

RECURSIVE Join(_, _)
\* Array.prototype.join on a sequence of strings
Join(parts, sep) ==
    IF Len(parts) = 0 THEN ""
    ELSE IF Len(parts) = 1 THEN parts[1]
    ELSE parts[1] \o sep \o Join(Tail(parts), sep)

\* Sequences over S of length 0..n
SeqUpTo(S, n) == UNION {[1..k -> S] : k \in 0..n}


-----------------------------------------------------------------------------
(* Numbers and JSON text *)

\* Math.round on a number kept in thousandths: the nearest integer, a tie going up.
MathRound(n) == ((n + 500) \div 1000) * 1000

MathMax(a, b) == IF a >= b THEN a ELSE b

Digits == <<"0", "1", "2", "3", "4", "5", "6", "7", "8", "9">>

\* The decimal text of the fraction f/1000 (0 < f < 1000), without trailing zeros.
FractionToString(f) ==
    LET d1 == f \div 100
        d2 == (f \div 10) % 10
        d3 == f % 10
    IN  Digits[d1 + 1]
          \o (IF d2 = 0 /\ d3 = 0 THEN "" ELSE Digits[d2 + 1])
          \o (IF d3 = 0 THEN "" ELSE Digits[d3 + 1])

\* Number.prototype.toString of a finite number kept in thousandths.
NumberToString(n) ==
    LET m == IF n < 0 THEN -n ELSE n
    IN  (IF n < 0 THEN "-" ELSE "")
          \o ToString(m \div 1000)
          \o (IF m % 1000 = 0 THEN "" ELSE "." \o FractionToString(m % 1000))

Quote(s) == "\"" \o s \o "\""

\* JSON.stringify of the values a request document holds: strings, numbers
\* (a NaN is written null) and arrays of strings.
JSONStringifyValue(v) ==
    CASE v.t = "string" -> Quote(v.s)
      [] v.t = "number" -> IF IsFinite(v) THEN NumberToString(v.n) ELSE "null"
      [] v.t = "array" ->
            "[" \o Join([i \in 1..Len(v.a) |-> Quote(v.a[i].s)], ",") \o "]"
      [] OTHER -> "null"

\* JSON.stringify of an object of such values, its properties in insertion order.
JSONStringify(obj) ==
    "{" \o Join([i \in 1..Len(obj.o) |->
                    Quote(obj.o[i].key) \o ":" \o JSONStringifyValue(obj.o[i].value)],
                ",") \o "}"

-----------------------------------------------------------------------------
(* The request builder *)

SERVICE == "ProductAdvertisingAPI"
TARGET == "com.amazon.paapi5.v1.ProductAdvertisingAPIv1.SearchItems"
API_PATH == "/paapi5/searchitems"

\* Mutant: the scaled amount is cut off, not rounded.
toSubUnits_Truncated(value) ==
    IF IsFinite(value) THEN Num(MathMax(0, ((value.n * 100) \div 1000) * 1000)) ELSE NaN

\* Math.max(0, Math.round(value * 100)); the product is taken exactly.
toSubUnits(value) ==
    IF IsFinite(value) THEN Num(MathMax(0, MathRound(value.n * 100))) ELSE NaN

Resources ==
    Arr(<<Str("Images.Primary.Small"), Str("Images.Primary.Medium"),
          Str("ItemInfo.Title"), Str("ItemInfo.ByLineInfo"),
          Str("Offers.Listings.Price"), Str("CustomerReviews.Count"),
          Str("CustomerReviews.StarRating")>>)

\* Mutant: a price filter is added only when the price is truthy, as the text
\* filters are.
buildRequestBody_TruthyPrices(in) ==
    LET request == <<P("Keywords", in.keywords),
                     P("PartnerTag", Str(config.AMAZON_PARTNER_TAG)),
                     P("PartnerType", Str("Associates")),
                     P("Resources", Resources)>>
        r1 == IF Truthy(in.category)
              THEN Append(request, P("SearchIndex", in.category)) ELSE request
        r2 == IF Truthy(in.sortBy)
              THEN Append(r1, P("SortBy", in.sortBy)) ELSE r1
        r3 == IF Truthy(in.minPrice)
              THEN Append(r2, P("MinPrice", toSubUnits(in.minPrice))) ELSE r2
        r4 == IF Truthy(in.maxPrice)
              THEN Append(r3, P("MaxPrice", toSubUnits(in.maxPrice))) ELSE r3
    IN  Obj(r4)

buildRequestBody(in) ==
    LET request == <<P("Keywords", in.keywords),
                     P("PartnerTag", Str(config.AMAZON_PARTNER_TAG)),
                     P("PartnerType", Str("Associates")),
                     P("Resources", Resources)>>
        r1 == IF Truthy(in.category)
              THEN Append(request, P("SearchIndex", in.category)) ELSE request
        r2 == IF Truthy(in.sortBy)
              THEN Append(r1, P("SortBy", in.sortBy)) ELSE r1
        r3 == IF IsNumber(in.minPrice)
              THEN Append(r2, P("MinPrice", toSubUnits(in.minPrice))) ELSE r2
        r4 == IF IsNumber(in.maxPrice)
              THEN Append(r3, P("MaxPrice", toSubUnits(in.maxPrice))) ELSE r3
    IN  Obj(r4)


-----------------------------------------------------------------------------
(* The signer *)

\* n in decimal, w digits wide, as a sequence of characters
Pad(n, w) == [i \in 1..w |-> Digits[((n \div (10 ^ (w - i))) % 10) + 1]]

\* Date.prototype.toISOString: YYYY-MM-DDTHH:mm:ss.sssZ, as a sequence of characters
toISOString(date) ==
    Pad(date.year, 4) \o <<"-">> \o Pad(date.month, 2) \o <<"-">> \o Pad(date.day, 2)
      \o <<"T">> \o Pad(date.hour, 2) \o <<":">> \o Pad(date.minute, 2) \o <<":">>
      \o Pad(date.second, 2) \o <<".">> \o Pad(date.ms, 3) \o <<"Z">>

IsDigit(c) == \E i \in 1..10 : Digits[i] = c

\* Mutant: the milliseconds stay in the timestamp.
StripMillis_Kept(chars) == chars

\* chars.replace(/\.\d{3}Z$/, 'Z')
StripMillis(chars) ==
    LET n == Len(chars)
    IN  IF /\ n >= 5
           /\ chars[n - 4] = "."
           /\ \A i \in (n - 3)..(n - 1) : IsDigit(chars[i])
           /\ chars[n] = "Z"
        THEN SubSeq(chars, 1, n - 5) \o <<"Z">>
        ELSE chars

\* date.toISOString().replace(/[:-]/g, '').replace(/\.\d{3}Z$/, 'Z')
createAmzDate(date) ==
    StripMillis(SelectSeq(toISOString(date), LAMBDA c : c \notin {":", "-"}))

\* String.prototype.slice(0, n) on a sequence of characters
Slice0(chars, n) == SubSeq(chars, 1, IF Len(chars) < n THEN Len(chars) ELSE n)

\* SHA-256 and HMAC-SHA256 are kept symbolic: a digest names what was hashed,
\* so two digests are equal exactly when their inputs are.
sha256(value) == "sha256hex(" \o value \o ")"

hmac(key, data) == "hmac(" \o key \o "," \o data \o ")"

hmacHex(key, data) == "hex(" \o hmac(key, data) \o ")"

deriveSigningKey(secretKey, dateStamp, region) ==
    LET kDate == hmac("AWS4" \o secretKey, dateStamp)
        kRegion == hmac(kDate, region)
        kService == hmac(kRegion, SERVICE)
    IN  hmac(kService, "aws4_request")

\* Mutant: the host header is listed first.
canonicalHeadersList_HostFirst(host, amzDate) ==
    <<<<"host", host>>,
      <<"content-encoding", "amz-1.0">>,
      <<"content-type", "application/json; charset=UTF-8">>,
      <<"x-amz-date", amzDate>>,
      <<"x-amz-target", TARGET>>>>

canonicalHeadersList(host, amzDate) ==
    <<<<"content-encoding", "amz-1.0">>,
      <<"content-type", "application/json; charset=UTF-8">>,
      <<"host", host>>,
      <<"x-amz-date", amzDate>>,
      <<"x-amz-target", TARGET>>>>

canonicalHeaders(list) ==
    Join([i \in 1..Len(list) |-> list[i][1] \o ":" \o list[i][2] \o "\n"], "")

signedHeaders(list) == Join([i \in 1..Len(list) |-> list[i][1]], ";")

\* Mutant: the number of the call is signed along, as a nonce would be.
canonicalRequest_WithCounter(list, body) ==
    Join(<<"POST", API_PATH, "", canonicalHeaders(list), signedHeaders(list),
           sha256(body), ToString(callsMade)>>, "\n")

\* Mutant: the payload hash is left out of the canonical request.
canonicalRequest_Unhashed(list, body) ==
    Join(<<"POST", API_PATH, "", canonicalHeaders(list), signedHeaders(list)>>, "\n")

canonicalRequest(list, body) ==
    Join(<<"POST", API_PATH, "", canonicalHeaders(list), signedHeaders(list),
           sha256(body)>>, "\n")

credentialScope(dateStamp, region) ==
    dateStamp \o "/" \o region \o "/" \o SERVICE \o "/aws4_request"

stringToSign(amzDate, scope, request) ==
    Join(<<"AWS4-HMAC-SHA256", amzDate, scope, sha256(request)>>, "\n")

\* The locals of buildSignedRequest(body), with the reading `new Date()` took as
\* now: the one reading of the clock the function makes
signingLocals(body, now) ==
    LET host == config.AMAZON_HOST
        region == config.AMAZON_REGION
        accessKey == config.AWS_ACCESS_KEY_ID
        secretKey == config.AWS_SECRET_ACCESS_KEY
        endpoint == "https://" \o host \o API_PATH
        amzDateChars == createAmzDate(now)
        amzDate == Join(amzDateChars, "")
        dateStampChars == Slice0(amzDateChars, 8)
        dateStamp == Join(dateStampChars, "")
        list == canonicalHeadersList(host, amzDate)
        scope == credentialScope(dateStamp, region)
        request == canonicalRequest(list, body)
        toSign == stringToSign(amzDate, scope, request)
        signingKey == deriveSigningKey(secretKey, dateStamp, region)
        signature == hmacHex(signingKey, toSign)
        authorizationHeader ==
            "AWS4-HMAC-SHA256 Credential=" \o accessKey \o "/" \o scope \o ", "
              \o "SignedHeaders=" \o signedHeaders(list) \o ", Signature=" \o signature
    IN  [endpoint |-> endpoint,
         amzDateChars |-> amzDateChars,
         amzDate |-> amzDate,
         dateStampChars |-> dateStampChars,
         dateStamp |-> dateStamp,
         canonicalHeadersList |-> list,
         canonicalHeaders |-> canonicalHeaders(list),
         signedHeaders |-> signedHeaders(list),
         canonicalRequest |-> request,
         credentialScope |-> scope,
         stringToSignLines |-> <<"AWS4-HMAC-SHA256", amzDate, scope, sha256(request)>>,
         stringToSign |-> toSign,
         signingKeyDate |-> dateStamp,
         signingKey |-> signingKey,
         signature |-> signature,
         authorizationHeader |-> authorizationHeader]

\* What buildSignedRequest(body) returns
buildSignedRequest(body, now) ==
    With(signingLocals(body, now), LAMBDA l :
        [endpoint |-> l.endpoint,
         headers |->
            [ContentEncoding |-> "amz-1.0",
             ContentType |-> "application/json; charset=UTF-8",
             XAmzDate |-> l.amzDate,
             XAmzTarget |-> TARGET,
             Authorization |-> l.authorizationHeader,
             Accept |-> "application/json"]])


-----------------------------------------------------------------------------
(* The response normalizer *)

\* An Error object, and the completion of an operator that threw one.
Err(name, message) == [name |-> name, message |-> message]
Throw(e) == [t |-> "throw", error |-> e]
Threw(x) == x.t = "throw"

\* `${v}` for the values an error entry's field holds
TemplateString(v) ==
    CASE v.t = "string" -> v.s
      [] v.t = "number" -> IF IsFinite(v) THEN NumberToString(v.n) ELSE "NaN"
      [] OTHER -> v.t

\* x?.length is truthy, for x an array or absent (as AmazonSearchItemsResponse
\* declares Errors)
HasLength(x) == x.t = "array" /\ Len(x.a) > 0

\* Mutant: only the first entry is rendered.
formatErrorMessages_FirstOnly(errors) ==
    IF ~HasLength(errors)
    THEN Undefined
    ELSE Str(TemplateString(Coalesce(Get(errors.a[1], "Code"), Str("UnknownCode")))
               \o ": "
               \o TemplateString(
                     Coalesce(Get(errors.a[1], "Message"),
                              Str("Unknown error from Amazon Product Advertising API"))))

formatErrorMessages(errors) ==
    IF ~HasLength(errors)
    THEN Undefined
    ELSE Str(Join([i \in 1..Len(errors.a) |->
                     LET code == Coalesce(Get(errors.a[i], "Code"), Str("UnknownCode"))
                         message ==
                            Coalesce(Get(errors.a[i], "Message"),
                                     Str("Unknown error from Amazon Product Advertising API"))
                     IN  TemplateString(code) \o ": " \o TemplateString(message)],
                  "; "))

\* The finite numbers (in thousandths) whose decimal text Number() is asked to read.
ParseDomain == {-3000, 0, 4600, 5000, 7500, 84000, 321000, 321500}

\* Number(s) for a string: the number whose decimal text s is, 0 for the empty
\* string, NaN for any other text.
StringToNumber(s) ==
    IF s = "" THEN Num(0)
    ELSE IF \E n \in ParseDomain : NumberToString(n) = s
         THEN Num(CHOOSE n \in ParseDomain : NumberToString(n) = s)
         ELSE NaN

parseNumber(value) ==
    IF IsFinite(value) THEN value
    ELSE IF IsString(value) /\ IsFinite(StringToNumber(value.s))
         THEN StringToNumber(value.s)
         ELSE Undefined

parseInteger(value) ==
    LET parsed == parseNumber(value)
    IN  IF parsed = Undefined THEN Undefined ELSE Num(MathRound(parsed.n))

normalizePrice(price) ==
    IF ~Truthy(OptGet(price, "DisplayAmount"))
    THEN Undefined
    ELSE LET n0 == <<P("display", Get(price, "DisplayAmount"))>>
             n1 == IF IsFinite(Get(price, "Amount"))
                   THEN Append(n0, P("amount", Get(price, "Amount"))) ELSE n0
             n2 == IF Truthy(Get(price, "Currency"))
                   THEN Append(n1, P("currency", Get(price, "Currency"))) ELSE n1
         IN  Obj(n2)

normalizeItem(item) ==
    IF IsNullish(item)
    THEN Throw(Err("TypeError", "Cannot read properties of " \o item.t
                                  \o " (reading 'Offers')"))
    ELSE LET listing == OptFirst(OptGet(Get(item, "Offers"), "Listings"))
             price == normalizePrice(OptGet(listing, "Price"))
             reviews == Get(item, "CustomerReviews")
             rating == parseNumber(OptGet(reviews, "StarRating"))
             reviewCount ==
                parseInteger(Coalesce(OptGet(reviews, "TotalReviewCount"),
                                      OptGet(reviews, "Count")))
             primary == OptGet(Get(item, "Images"), "Primary")
             imageUrl ==
                Coalesce(OptGet(OptGet(primary, "Medium"), "URL"),
                         Coalesce(OptGet(OptGet(primary, "Small"), "URL"),
                                  OptGet(OptGet(primary, "Large"), "URL")))
             s0 == <<P("asin", Get(item, "ASIN")),
                     P("title",
                       Coalesce(OptGet(OptGet(Get(item, "ItemInfo"), "Title"),
                                       "DisplayValue"),
                                Get(item, "ASIN")))>>
             s1 == IF Truthy(Get(item, "DetailPageURL"))
                   THEN Append(s0, P("detailPageUrl", Get(item, "DetailPageURL"))) ELSE s0
             s2 == IF Truthy(price) THEN Append(s1, P("price", price)) ELSE s1
             s3 == IF IsNumber(rating) THEN Append(s2, P("rating", rating)) ELSE s2
             s4 == IF IsNumber(reviewCount)
                   THEN Append(s3, P("totalReviews", reviewCount)) ELSE s3
             s5 == IF Truthy(imageUrl) THEN Append(s4, P("imageUrl", imageUrl)) ELSE s4
         IN  Obj(s5)

\* Mutant: items without an ASIN are left out.
mapItems_DropsUnidentified(list) ==
    With(list, LAMBDA items :
        Arr(SelectSeq([i \in 1..Len(items.a) |-> normalizeItem(items.a[i])],
                      LAMBDA x : ~Threw(x) /\ PropValue(x.o, "asin") # Undefined)))

\* items.map((item) => this.normalizeItem(item)): the array of summaries, or the
\* first throw
mapItems(list) ==
    With(list, LAMBDA items :
    IF items.t # "array"
    THEN Throw(Err("TypeError", "items.map is not a function"))
    ELSE With([i \in 1..Len(items.a) |-> normalizeItem(items.a[i])],
              LAMBDA out :
                  IF \E i \in 1..Len(out) : Threw(out[i])
                  THEN out[CHOOSE i \in 1..Len(out) :
                             Threw(out[i]) /\ \A j \in 1..(i - 1) : ~Threw(out[j])]
                  ELSE Arr(out)))

\* A reply body: an empty text, a text that is not JSON, or a text that JSON.parse
\* reads as a value.
EmptyBody == [text |-> ""]
TextBody(s) == [text |-> s]
JsonBody(v) == [json |-> v]

\* Mutant: a text that is not JSON is read as an empty object.
parsePayload_Lenient(rawPayload) ==
    IF "json" \in DOMAIN rawPayload THEN rawPayload.json ELSE Obj(<<>>)

\* JSON.parse(text): the value, or the SyntaxError it throws
JSONParse(body) ==
    IF "json" \in DOMAIN body
    THEN body.json
    ELSE Throw(Err("SyntaxError",
                   IF body.text = "" THEN "Unexpected end of JSON input"
                   ELSE "Unexpected token in JSON at position 0"))

\* Response.ok
StatusOk(status) == status >= 200 /\ status <= 299

\* payload = rawPayload ? JSON.parse(rawPayload) : {}, a SyntaxError rethrown as
\* an Error that names the parse failure
parsePayload(rawPayload) ==
    With(IF rawPayload = EmptyBody THEN Obj(<<>>) ELSE JSONParse(rawPayload),
         LAMBDA parsed :
            IF Threw(parsed)
            THEN Throw(Err("Error", "Unable to parse Amazon API response as JSON: "
                                      \o parsed.error.message))
            ELSE parsed)

\* Mutant: the status is not looked at.
rejectStatus_Ignored(resp, payload) == None

\* if (!response.ok) throw ...: the error thrown, or None when the status passes
rejectStatus(resp, payload) ==
    IF ~resp.ok
    THEN Throw(Err("Error",
                   Coalesce(formatErrorMessages(Get(payload, "Errors")),
                            Str("Amazon API responded with status "
                                  \o ToString(resp.status))).s))
    ELSE None

\* if (payload.Errors?.length) throw ...: the error thrown, or None
rejectErrors(payload) ==
    IF HasLength(Get(payload, "Errors"))
    THEN Throw(Err("Error",
                   Coalesce(formatErrorMessages(Get(payload, "Errors")),
                            Str("Unknown Amazon API error")).s))
    ELSE None

\* The result built from the payload's items and request id, or the throw of the
\* item mapping
buildResult(payload) ==
    With(mapItems(Coalesce(OptGet(Get(payload, "SearchResult"), "Items"), Arr(<<>>))),
         LAMBDA products :
            IF Threw(products) THEN products
            ELSE Obj(<<P("products", products)>>
                       \o (IF Truthy(Get(payload, "RequestId"))
                           THEN <<P("requestId", Get(payload, "RequestId"))>>
                           ELSE <<>>)))

\* Mutant: the status is looked at before the body is parsed.
handleReply_StatusFirst(resp, rawPayload) ==
    IF ~resp.ok
    THEN Throw(Err("Error", "Amazon API responded with status "
                              \o ToString(resp.status)))
    ELSE With(parsePayload(rawPayload),
              LAMBDA payload :
                 IF Threw(payload) THEN payload
                 ELSE IF Threw(rejectErrors(payload)) THEN rejectErrors(payload)
                 ELSE buildResult(payload))

\* searchProducts from the reply text on: what the call resolves to, or the throw
\* it rejects with
handleReply(resp, rawPayload) ==
    With(parsePayload(rawPayload),
         LAMBDA payload :
            IF Threw(payload) THEN payload
            ELSE IF Threw(rejectStatus(resp, payload)) THEN rejectStatus(resp, payload)
            ELSE IF Threw(rejectErrors(payload)) THEN rejectErrors(payload)
            ELSE buildResult(payload))

-----------------------------------------------------------------------------
(* Bounds and the inputs drawn within them *)

MaxErrors == 2      \* longest Errors list of a reply
MaxItems == 2       \* longest SearchResult.Items list of a reply
MaxCalls == 3       \* calls made one after another on the same client
MaxFlights == 2     \* calls in flight at once on the same client

BaseConfig ==
    [AWS_ACCESS_KEY_ID |-> "AKIATESTKEY12345",
     AWS_SECRET_ACCESS_KEY |-> "test-secret-key",
     AMAZON_PARTNER_TAG |-> "test-partner",
     AMAZON_REGION |-> "us-east-1",
     AMAZON_HOST |-> "webservices.amazon.com"]

OtherConfig ==
    [AWS_ACCESS_KEY_ID |-> "AKIAOTHERKEY6789",
     AWS_SECRET_ACCESS_KEY |-> "other-secret-key",
     AMAZON_PARTNER_TAG |-> "other-partner",
     AMAZON_REGION |-> "eu-west-1",
     AMAZON_HOST |-> "webservices.amazon.co.uk"]

Configs == {BaseConfig, OtherConfig}

Query(keywords, category, sortBy, minPrice, maxPrice) ==
    [keywords |-> keywords, category |-> category, sortBy |-> sortBy,
     minPrice |-> minPrice, maxPrice |-> maxPrice]

\* Amounts in thousandths: -5, -0.125, 0, 0.004, 0.125, 0.375, 12.34, 19.999,
\* 199.99.  An amount times 100 is then either a tie a double holds exactly
\* (12.5, 37.5, -12.5) or at least a tenth away from one, so the double
\* product rounds as the exact one does.
Amounts == {-5000, -125, 0, 4, 125, 375, 12340, 19999, 199990}

\* Every query the request builder is tried on.
AllQueries ==
    {Query(k, c, s, lo, hi) :
        k \in {Str("headphones"), Str("books")},
        c \in {Undefined, Str(""), Str("Electronics")},
        s \in {Undefined, Str(""), Str("Featured")},
        lo \in {Undefined} \cup {Num(n) : n \in Amounts},
        hi \in {Undefined} \cup {Num(n) : n \in Amounts}}

TestQuery ==
    Query(Str("headphones"), Str("Electronics"), Str("Featured"), Num(12340), Num(199990))

\* The queries whole calls are made with.
Queries ==
    {TestQuery,
     Query(Str("books"), Undefined, Undefined, Undefined, Undefined),
     Query(Str("books"), Str(""), Undefined, Num(19999), Num(125))}

Instant(y, mo, d, h, mi, sec, ms) ==
    [year |-> y, month |-> mo, day |-> d, hour |-> h, minute |-> mi,
     second |-> sec, ms |-> ms]

\* Clock readings: 2024-01-02T03:04:05.000Z, the same second 999 ms later, and
\* the last second of 2024.
Instants ==
    {Instant(2024, 1, 2, 3, 4, 5, 0), Instant(2024, 1, 2, 3, 4, 5, 999),
     Instant(2024, 12, 31, 23, 59, 59, 500)}

TransportErrors ==
    {Err("TypeError", "fetch failed"), Err("AbortError", "This operation was aborted")}

Statuses == {200, 403, 500}

ErrorEntries ==
    {Obj(<<P("Code", Str("AccessDenied")),
           P("Message", Str("The security token included in the request is invalid"))>>),
     Obj(<<P("Code", Str("TooManyRequests"))>>),
     Obj(<<P("Message", Str("Rate exceeded"))>>),
     Obj(<<>>)}

ErrorLists == {Arr(l) : l \in SeqUpTo(ErrorEntries, MaxErrors)}

TestItem ==
    Obj(<<P("ASIN", Str("B0TEST123")),
          P("DetailPageURL", Str("https://amazon.example/products/B0TEST123")),
          P("ItemInfo",
            Obj(<<P("Title", Obj(<<P("DisplayValue", Str("Noise Cancelling Headphones"))>>)),
                  P("ByLineInfo",
                    Obj(<<P("Brand", Obj(<<P("DisplayValue", Str("ACME"))>>))>>))>>)),
          P("Offers",
            Obj(<<P("Listings",
                    Arr(<<Obj(<<P("Price",
                                  Obj(<<P("DisplayAmount", Str("$199.99")),
                                        P("Amount", Num(199990)),
                                        P("Currency", Str("USD"))>>))>>)>>))>>)),
          P("CustomerReviews",
            Obj(<<P("StarRating", Str("4.6")), P("TotalReviewCount", Str("321"))>>)),
          P("Images",
            Obj(<<P("Primary",
                    Obj(<<P("Medium", Obj(<<P("URL", Str("https://images.example/medium.jpg"))>>)),
                          P("Small", Obj(<<P("URL", Str("https://images.example/small.jpg"))>>))>>))>>))>>)

\* Items of a reply in whole calls: the test's item, an item with only an ASIN,
\* an item with no fields, an item that is a string, an item that is null.
Items ==
    {TestItem, Obj(<<P("ASIN", Str("B0OTHER456"))>>), Obj(<<>>), Str("oops"), Null}

ItemLists == {Arr(l) : l \in SeqUpTo(Items, MaxItems)}

Payload(errors, searchResult, requestId) ==
    Obj((IF errors = Undefined THEN <<>> ELSE <<P("Errors", errors)>>)
          \o (IF searchResult = Undefined THEN <<>> ELSE <<P("SearchResult", searchResult)>>)
          \o (IF requestId = Undefined THEN <<>> ELSE <<P("RequestId", requestId)>>))

Payloads ==
    {Payload(e, sr, Undefined) :
        e \in {Undefined} \cup ErrorLists,
        sr \in {Undefined, Obj(<<P("Items", Arr(<<TestItem>>))>>)}}
    \cup
    {Payload(e, sr, id) :
        e \in {Undefined, Arr(<<>>)},
        sr \in {Undefined, Null, Obj(<<>>)} \cup {Obj(<<P("Items", l)>>) : l \in ItemLists},
        id \in {Undefined, Str("REQUEST-123")}}

Bodies == {EmptyBody, TextBody("not-json")} \cup {JsonBody(p) : p \in Payloads}

\* What fetch resolves to.
Response(status, body) == [status |-> status, ok |-> StatusOk(status), body |-> body]

Replies == {Response(st, b) : st \in Statuses, b \in Bodies}


\* The price of the test's item, and the listings an item's Offers are tried with:
\* none, an empty list, one listing, and lists whose first listing has no price,
\* an empty display amount or no display amount while a later one has all three.
FullPrice ==
    Obj(<<P("DisplayAmount", Str("$199.99")), P("Amount", Num(199990)),
          P("Currency", Str("USD"))>>)

ListingLists ==
    {Arr(<<>>),
     Arr(<<Obj(<<P("Price", FullPrice)>>)>>),
     Arr(<<Obj(<<>>), Obj(<<P("Price", FullPrice)>>)>>),
     Arr(<<Null, Obj(<<P("Price", FullPrice)>>)>>),
     Arr(<<Obj(<<P("Price", Obj(<<P("DisplayAmount", Str("")), P("Amount", Num(5000)),
                                  P("Currency", Str("USD"))>>))>>),
           Obj(<<P("Price", FullPrice)>>)>>),
     Arr(<<Obj(<<P("Price", Obj(<<P("Amount", Num(5000)), P("Currency", Str("USD"))>>))>>),
           Obj(<<P("Price", FullPrice)>>)>>),
     Arr(<<Obj(<<P("Price", Obj(<<P("DisplayAmount", Null), P("Amount", Num(5000))>>))>>)>>),
     Arr(<<Obj(<<P("Price", Obj(<<P("DisplayAmount", Str("$5.00"))>>))>>)>>),
     Arr(<<Obj(<<P("Price", Obj(<<P("DisplayAmount", Str("$5.00")), P("Amount", Str("5")),
                                  P("Currency", Str(""))>>))>>)>>),
     Arr(<<Obj(<<P("Price", Obj(<<P("DisplayAmount", Str("$5.00")), P("Amount", Null),
                                  P("Currency", Null)>>))>>)>>),
     Arr(<<Obj(<<P("Price", Null)>>)>>)}

OfferVariants ==
    {<<>>, <<P("Offers", Null)>>, <<P("Offers", Obj(<<>>))>>}
    \cup {<<P("Offers", Obj(<<P("Listings", l)>>))>> : l \in ListingLists}

\* An item with an ASIN and the given further properties.
ItemWith(props) == Obj(<<P("ASIN", Str("B0TEST123"))>> \o props)

\* The properties among key/value pairs whose value is given (not undefined).
Given(pairs) == SelectSeq(pairs, LAMBDA p : p.value # Undefined)

\* Star ratings: absent, null, a number, a numeric text, a text that is no number,
\* the empty text, and numbers below 0 and above 5.
StarRatings ==
    {Undefined, Null, Num(4600), Str("4.6"), Str("n/a"), Str(""), Num(0), Num(5000),
     Num(7500), Str("7.5"), Num(-3000)}

\* Review totals: absent, null, a whole number, a numeric text, a text that is no
\* number, the empty text, a number with a fraction, a negative number.
TotalReviewCounts ==
    {Undefined, Null, Num(321000), Str("321"), Str("n/a"), Str(""), Num(321500),
     Str("321.5"), Num(-3000), Str("-3")}

ReviewCounts == {Undefined, Num(84000), Str("84")}

ReviewVariants ==
    {<<P("CustomerReviews", Null)>>}
    \cup {<<P("CustomerReviews",
              Obj(Given(<<P("StarRating", r), P("TotalReviewCount", t), P("Count", c)>>)))>> :
            r \in StarRatings, t \in TotalReviewCounts, c \in ReviewCounts}

\* An image of one size: absent, without URL, with a null, an empty or a real URL.
ImageOf(url) == IF url = Undefined THEN Obj(<<>>) ELSE Obj(<<P("URL", url)>>)

ImageVariants ==
    {<<>>, <<P("Images", Null)>>, <<P("Images", Obj(<<>>))>>,
     <<P("Images", Obj(<<P("Primary", Null)>>))>>}
    \cup {<<P("Images",
              Obj(<<P("Primary", Obj(Given(<<P("Medium", m), P("Small", sm), P("Large", l)>>)))>>))>> :
            m \in {Undefined, ImageOf(Undefined), ImageOf(Null), ImageOf(Str("")),
                   ImageOf(Str("https://images.example/medium.jpg"))},
            sm \in {Undefined, ImageOf(Str("")),
                    ImageOf(Str("https://images.example/small.jpg"))},
            l \in {Undefined, ImageOf(Str("https://images.example/large.jpg"))}}

\* What an item says of its title: nothing, a null or empty ItemInfo or Title, a
\* null, empty or real display value.
TitleVariants ==
    {<<>>, <<P("ItemInfo", Null)>>, <<P("ItemInfo", Obj(<<>>))>>,
     <<P("ItemInfo", Obj(<<P("Title", Null)>>))>>,
     <<P("ItemInfo", Obj(<<P("Title", Obj(<<>>))>>))>>}
    \cup {<<P("ItemInfo", Obj(<<P("Title", Obj(<<P("DisplayValue", d)>>))>>))>> :
            d \in {Null, Str(""), Str("Noise Cancelling Headphones")}}

\* Items that differ in ASIN and title: an ASIN, none, or a null one.
IdentityItems ==
    {Obj(Given(<<P("ASIN", a)>>) \o v) :
        a \in {Str("B0TEST123"), Undefined, Null}, v \in TitleVariants}

\* Items of a reply for the normalizer: one group of fields varies at a time.
NormItems ==
    {ItemWith(v) : v \in OfferVariants \cup ReviewVariants \cup ImageVariants}
    \cup IdentityItems

\* Replies for the normalizer: a success status and one item.
ItemReplies ==
    {Response(200, JsonBody(Payload(Undefined, Obj(<<P("Items", Arr(<<i>>))>>), Undefined))) :
        i \in NormItems}


-----------------------------------------------------------------------------
(* The client: one action per step of searchProducts *)

\* An activation that has not been started.
Idle == [pc |-> "idle"]

\* The start of the process is over: main has connected the server.
Started == [pc |-> "serving"]

Init ==
    /\ config \in Configs
    /\ pc = "idle"
    /\ input = None
    /\ requestBody = None
    /\ bodyJson = None
    /\ signed = None
    /\ fetchArgs = None
    /\ response = None
    /\ returned = None
    /\ thrown = None
    /\ steps = <<>>
    /\ fetchCalls = 0
    /\ transportError = None
    /\ callsMade = 0
    /\ signLog = {}
    /\ toolArgs = None
    /\ toolResult = None
    /\ flights = [id \in 1..MaxFlights |-> Idle]
    /\ startup = Started

\* searchProducts(q) is invoked: a fresh activation, nothing computed yet.
StartCall(q) ==
    /\ input' = q
    /\ pc' = "build"
    /\ requestBody' = None
    /\ bodyJson' = None
    /\ signed' = None
    /\ fetchArgs' = None
    /\ response' = None
    /\ returned' = None
    /\ thrown' = None
    /\ steps' = <<>>
    /\ fetchCalls' = 0
    /\ transportError' = None
    /\ callsMade' = callsMade + 1
    /\ UNCHANGED <<config, signLog>>

\* The first call on the client.
Call(q) ==
    /\ pc = "idle"
    /\ StartCall(q)
    /\ UNCHANGED handlerVars
    /\ UNCHANGED flightVars
    /\ UNCHANGED startupVars

\* A further call, made after the previous one settled.
CallAgain(q) ==
    /\ pc = "done"
    /\ callsMade < MaxCalls
    /\ StartCall(q)
    /\ UNCHANGED handlerVars
    /\ UNCHANGED flightVars
    /\ UNCHANGED startupVars

\* const requestBody = this.buildRequestBody(input)
BuildStep ==
    /\ pc = "build"
    /\ requestBody' = buildRequestBody(input)
    /\ steps' = Append(steps, "build")
    /\ pc' = "serialize"
    /\ UNCHANGED handlerVars
    /\ UNCHANGED flightVars
    /\ UNCHANGED startupVars
    /\ UNCHANGED <<config, input, bodyJson, signed, fetchArgs, response, returned,
                   thrown, fetchCalls, transportError, callsMade, signLog>>

\* const bodyJson = JSON.stringify(requestBody)
SerializeStep ==
    /\ pc = "serialize"
    /\ bodyJson' = Str(JSONStringify(requestBody))
    /\ steps' = Append(steps, "serialize")
    /\ pc' = "sign"
    /\ UNCHANGED handlerVars
    /\ UNCHANGED flightVars
    /\ UNCHANGED startupVars
    /\ UNCHANGED <<config, input, requestBody, signed, fetchArgs, response, returned,
                   thrown, fetchCalls, transportError, callsMade, signLog>>

\* const { endpoint, headers } = this.buildSignedRequest(bodyJson), the clock
\* reading now
SignStep(now) ==
    /\ pc = "sign"
    /\ LET req == buildSignedRequest(bodyJson.s, now)
       IN  /\ signed' = [endpoint |-> req.endpoint, headers |-> req.headers, now |-> now]
           /\ signLog' = signLog \cup
                  {[body |-> bodyJson.s, now |-> now, endpoint |-> req.endpoint,
                    headers |-> req.headers, call |-> callsMade,
                    locals |-> signingLocals(bodyJson.s, now)]}
    /\ steps' = Append(steps, "sign")
    /\ pc' = "fetch"
    /\ UNCHANGED handlerVars
    /\ UNCHANGED flightVars
    /\ UNCHANGED startupVars
    /\ UNCHANGED <<config, input, requestBody, bodyJson, fetchArgs, response, returned,
                   thrown, fetchCalls, transportError, callsMade>>

\* Mutant: the request document is sent with a line end after it.
InvokeFetch_LineEnd ==
    /\ pc = "fetch"
    /\ fetchArgs' = [endpoint |-> signed.endpoint, method |-> "POST",
                     headers |-> signed.headers, body |-> bodyJson.s \o "\n"]
    /\ fetchCalls' = fetchCalls + 1
    /\ steps' = Append(steps, "fetch")
    /\ pc' = "awaitFetch"
    /\ UNCHANGED handlerVars
    /\ UNCHANGED flightVars
    /\ UNCHANGED startupVars
    /\ UNCHANGED <<config, input, requestBody, bodyJson, signed, response, returned,
                   thrown, transportError, callsMade, signLog>>

\* fetch(endpoint, { method: 'POST', headers, body: bodyJson }) is invoked
InvokeFetch ==
    /\ pc = "fetch"
    /\ fetchArgs' = [endpoint |-> signed.endpoint, method |-> "POST",
                     headers |-> signed.headers, body |-> bodyJson.s]
    /\ fetchCalls' = fetchCalls + 1
    /\ steps' = Append(steps, "fetch")
    /\ pc' = "awaitFetch"
    /\ UNCHANGED handlerVars
    /\ UNCHANGED flightVars
    /\ UNCHANGED startupVars
    /\ UNCHANGED <<config, input, requestBody, bodyJson, signed, response, returned,
                   thrown, transportError, callsMade, signLog>>

\* fetch resolves to r; the call goes on to await response.text()
FetchResolves(r) ==
    /\ pc = "awaitFetch"
    /\ response' = r
    /\ pc' = "awaitText"
    /\ UNCHANGED handlerVars
    /\ UNCHANGED flightVars
    /\ UNCHANGED startupVars
    /\ UNCHANGED <<config, input, requestBody, bodyJson, signed, fetchArgs, returned,
                   thrown, steps, fetchCalls, transportError, callsMade, signLog>>

\* Mutant: the transport's error is wrapped in a new one.
Reject_Wrapped(e) ==
    /\ transportError' = e
    /\ thrown' = Err("Error", "Amazon request failed: " \o e.message)
    /\ pc' = "done"
    /\ UNCHANGED handlerVars
    /\ UNCHANGED flightVars
    /\ UNCHANGED startupVars
    /\ UNCHANGED <<config, input, requestBody, bodyJson, signed, fetchArgs, response,
                   returned, steps, fetchCalls, callsMade, signLog>>

\* An awaited promise of the transport rejects with e: nothing catches it.
Reject(e) ==
    /\ transportError' = e
    /\ thrown' = e
    /\ pc' = "done"
    /\ UNCHANGED handlerVars
    /\ UNCHANGED flightVars
    /\ UNCHANGED startupVars
    /\ UNCHANGED <<config, input, requestBody, bodyJson, signed, fetchArgs, response,
                   returned, steps, fetchCalls, callsMade, signLog>>

\* Mutant: a rejected fetch is tried again.
FetchRejects_Retry(e) ==
    /\ pc = "awaitFetch"
    /\ transportError' = e
    /\ pc' = "fetch"
    /\ UNCHANGED handlerVars
    /\ UNCHANGED flightVars
    /\ UNCHANGED startupVars
    /\ UNCHANGED <<config, input, requestBody, bodyJson, signed, fetchArgs, response,
                   returned, thrown, steps, fetchCalls, callsMade, signLog>>

\* fetch rejects with e
FetchRejects(e) ==
    /\ pc = "awaitFetch"
    /\ Reject(e)

\* response.text() rejects with e
TextRejects(e) ==
    /\ pc = "awaitText"
    /\ Reject(e)

\* response.text() resolves to the reply's body; the rest of searchProducts runs
TextResolves ==
    /\ pc = "awaitText"
    /\ LET outcome == handleReply(response, response.body)
       IN  IF Threw(outcome)
           THEN thrown' = outcome.error /\ returned' = None
           ELSE returned' = outcome /\ thrown' = None
    /\ steps' = Append(steps, "normalize")
    /\ pc' = "done"
    /\ UNCHANGED handlerVars
    /\ UNCHANGED flightVars
    /\ UNCHANGED startupVars
    /\ UNCHANGED <<config, input, requestBody, bodyJson, signed, fetchArgs, response,
                   fetchCalls, transportError, callsMade, signLog>>

\* One call on a fresh client, every reply and every transport failure.
Next ==
    \/ \E q \in Queries : Call(q)
    \/ BuildStep
    \/ SerializeStep
    \/ \E now \in Instants : SignStep(now)
    \/ InvokeFetch
    \/ \E r \in Replies : FetchResolves(r)
    \/ \E e \in TransportErrors : FetchRejects(e)
    \/ \E e \in TransportErrors : TextRejects(e)
    \/ TextResolves

Spec == Init /\ [][Next]_vars

\* Calls one after another on the same client, for what signing depends on: few
\* queries, every clock reading, an empty reply.
SignQueries ==
    {TestQuery, Query(Str("books"), Undefined, Undefined, Undefined, Undefined)}

SignReplies == {Response(200, EmptyBody), Response(500, EmptyBody)}

NextSign ==
    \/ \E q \in SignQueries : Call(q)
    \/ \E q \in SignQueries : CallAgain(q)
    \/ BuildStep
    \/ SerializeStep
    \/ \E now \in Instants : SignStep(now)
    \/ InvokeFetch
    \/ \E r \in SignReplies : FetchResolves(r)
    \/ TextResolves

SpecSign == Init /\ [][NextSign]_vars

\* The request builder on every query.
NextBuild ==
    \/ \E q \in AllQueries : Call(q)
    \/ BuildStep
    \/ SerializeStep

SpecBuild == Init /\ [][NextBuild]_vars


\* The normalizer on one item at a time.
NextItem ==
    \/ Call(TestQuery)
    \/ BuildStep
    \/ SerializeStep
    \/ \E now \in Instants : SignStep(now)
    \/ InvokeFetch
    \/ \E r \in ItemReplies : FetchResolves(r)
    \/ TextResolves

SpecItem == Init /\ [][NextItem]_vars


-----------------------------------------------------------------------------
(* The search_products tool: its input schema and its handler *)

SortKeys ==
    {"Featured", "Price:LowToHigh", "Price:HighToLow", "NewestArrivals",
     "AvgCustomerReviews"}

\* The arguments a caller hands to the handler: the five fields of the input
\* shape, each a value or undefined when the key is missing, and the value of one
\* key the shape does not know.
Args(keywords, category, minPrice, maxPrice, sortBy, extra) ==
    [keywords |-> keywords, category |-> category, minPrice |-> minPrice,
     maxPrice |-> maxPrice, sortBy |-> sortBy, extra |-> extra]

\* An issue of the schema; a fatal one (a wrong type, a missing key, a value
\* outside an enum) ends the parse before the refinement runs.
Issue(path, message, fatal) == [path |-> path, message |-> message, fatal |-> fatal]

\* z.string().min(1, message), .optional() when optional
textIssues(path, v, message, optional) ==
    IF v = Undefined
    THEN IF optional THEN {} ELSE {Issue(path, "Required", TRUE)}
    ELSE IF ~IsString(v) THEN {Issue(path, "Expected string, received " \o v.t, TRUE)}
    ELSE IF v.s = "" THEN {Issue(path, message, FALSE)}
    ELSE {}

\* z.number({ invalid_type_error }).nonnegative(message).optional()
priceIssues(path, v) ==
    IF v = Undefined THEN {}
    ELSE IF ~IsFinite(v) THEN {Issue(path, path \o " must be a number.", TRUE)}
    ELSE IF v.n < 0 THEN {Issue(path, path \o " cannot be negative.", FALSE)}
    ELSE {}

\* z.enum([...], { invalid_type_error }).optional()
sortByIssues(v) ==
    IF v = Undefined THEN {}
    ELSE IF ~IsString(v)
         THEN {Issue("sortBy", "sortBy must be one of the supported values.", TRUE)}
    ELSE IF v.s \notin SortKeys
         THEN {Issue("sortBy", "Invalid enum value, received '" \o v.s \o "'", TRUE)}
    ELSE {}

\* z.object(searchProductsInputShape).strict()
shapeIssues(args) ==
    textIssues("keywords", args.keywords, "Provide at least one keyword to search for.", FALSE)
      \cup textIssues("category", args.category, "Category cannot be empty.", TRUE)
      \cup priceIssues("minPrice", args.minPrice)
      \cup priceIssues("maxPrice", args.maxPrice)
      \cup sortByIssues(args.sortBy)
      \cup (IF args.extra = Undefined THEN {}
            ELSE {Issue("", "Unrecognized key(s) in object: 'extra'", FALSE)})

\* Mutant: the refinement raises no issue.
superRefine_Off(value) == {}

\* .superRefine((value, ctx) => ...)
superRefine(value) ==
    IF /\ IsNumber(value.minPrice)
       /\ IsNumber(value.maxPrice)
       /\ IsFinite(value.minPrice) /\ IsFinite(value.maxPrice)
       /\ value.minPrice.n > value.maxPrice.n
    THEN {Issue("minPrice", "minPrice cannot be greater than maxPrice.", FALSE)}
    ELSE {}

\* searchProductsInputSchema.parse(args): the parsed input (as value), or the
\* ZodError thrown
searchProductsInputSchema(args) ==
    LET base == shapeIssues(args)
        issues == IF \E i \in base : i.fatal THEN base ELSE base \cup superRefine(args)
    IN  IF issues = {}
        THEN [t |-> "parsed",
              value |-> Query(args.keywords, args.category, args.sortBy, args.minPrice,
                              args.maxPrice)]
        ELSE Throw([name |-> "ZodError", issues |-> issues])

\* Number.prototype.toFixed(1) of a finite number kept in thousandths
toFixed1(n) ==
    LET m == IF n < 0 THEN -n ELSE n
        tenths == (m + 50) \div 100
    IN  (IF n < 0 /\ tenths > 0 THEN "-" ELSE "")
          \o ToString(tenths \div 10) \o "." \o Digits[(tenths % 10) + 1]

\* The lines formatProductResults writes for the product at position index + 1
productLines(product, position) ==
    LET price == Get(product, "price")
        rating == Get(product, "rating")
        totalReviews == Get(product, "totalReviews")
        reviewsText ==
            IF IsNumber(totalReviews)
            THEN " from " \o TemplateString(totalReviews) \o " review"
                   \o (IF totalReviews = Num(1000) THEN "" ELSE "s")
            ELSE ""
    IN  <<ToString(position) \o ". " \o TemplateString(Get(product, "title"))
            \o " (ASIN: " \o TemplateString(Get(product, "asin")) \o ")">>
          \o (IF Truthy(OptGet(price, "display"))
              THEN <<"   Price: " \o TemplateString(Get(price, "display"))>> ELSE <<>>)
          \o (IF IsNumber(rating)
              THEN <<"   Rating: " \o toFixed1(rating.n) \o reviewsText>> ELSE <<>>)
          \o (IF Truthy(Get(product, "detailPageUrl"))
              THEN <<"   URL: " \o TemplateString(Get(product, "detailPageUrl"))>> ELSE <<>>)
          \o (IF Truthy(Get(product, "imageUrl"))
              THEN <<"   Image: " \o TemplateString(Get(product, "imageUrl"))>> ELSE <<>>)

formatProductResults(result, query) ==
    LET products == Get(result, "products").a
    IN  IF Len(products) = 0
        THEN "No products found for \"" \o query \o "\"."
        ELSE Join([i \in 1..Len(products) |-> Join(productLines(products[i], i), "\n")],
                  "\n\n")

\* The arguments the handler is tried with.
ToolArgs ==
    {Args(k, c, lo, hi, sb, x) :
        k \in {Undefined, Str(""), Str("tablet"), Num(5000)},
        c \in {Undefined, Str(""), Str("Electronics")},
        lo \in {Undefined, Num(-5000), Num(0), Num(12340), Num(199990), Str("12")},
        hi \in {Undefined, Num(-125), Num(0), Num(12340), Num(199990)},
        sb \in {Undefined, Str("Featured"), Str("Price:LowToHigh"), Str("Cheapest")},
        x \in {Undefined, Str("x")}}

\* The replies the handler's call is answered with.
ToolReplies ==
    {Response(200, JsonBody(Payload(Undefined,
                                    Obj(<<P("Items",
                                          Arr(<<TestItem,
                                                Obj(<<P("ASIN", Str("B0OTHER456"))>>)>>))>>),
                                    Str("REQUEST-123")))),
     Response(200, EmptyBody),
     Response(403, JsonBody(Payload(Arr(<<Obj(<<P("Code", Str("AccessDenied"))>>)>>),
                                    Undefined, Undefined)))}

\* The handler is invoked with args: it parses them and, when they pass, calls
\* client.searchProducts with what the parse gave; a ZodError rejects the handler
\* before the client is touched.
ToolCall(args) ==
    /\ pc = "idle"
    /\ UNCHANGED flightVars
    /\ UNCHANGED startupVars
    /\ toolArgs' = args
    /\ LET parsed == searchProductsInputSchema(args)
       IN  IF Threw(parsed)
           THEN /\ toolResult' = [rejected |-> parsed.error]
                /\ pc' = "toolDone"
                /\ UNCHANGED <<config, input, requestBody, bodyJson, signed, fetchArgs,
                               response, returned, thrown, steps, fetchCalls,
                               transportError, callsMade, signLog>>
           ELSE /\ toolResult' = None
                /\ StartCall(parsed.value)

\* client.searchProducts settled: the handler rejects with the call's error, or
\* resolves to the formatted text and the result as structured content
ToolResumes ==
    /\ pc = "done"
    /\ toolArgs # None
    /\ toolResult = None
    /\ UNCHANGED flightVars
    /\ UNCHANGED startupVars
    /\ toolResult' =
          IF thrown # None
          THEN [rejected |-> thrown]
          ELSE [content |-> <<[type |-> "text",
                               text |-> formatProductResults(returned, input.keywords.s)]>>,
                structuredContent |-> returned]
    /\ pc' = "toolDone"
    /\ UNCHANGED <<config, input, requestBody, bodyJson, signed, fetchArgs, response,
                   returned, thrown, steps, fetchCalls, transportError, callsMade,
                   signLog, toolArgs>>

\* The handler on every argument object, its call answered or failed.
NextTool ==
    \/ \E args \in ToolArgs : ToolCall(args)
    \/ BuildStep
    \/ SerializeStep
    \/ SignStep(Instant(2024, 1, 2, 3, 4, 5, 0))
    \/ InvokeFetch
    \/ \E r \in ToolReplies : FetchResolves(r)
    \/ \E e \in TransportErrors : FetchRejects(e)
    \/ TextResolves
    \/ ToolResumes

SpecTool == Init /\ [][NextTool]_vars

-----------------------------------------------------------------------------
(* Several calls in flight at once on one client.  searchProducts is an async   *)
(* function: an activation runs without interruption up to its next await, so   *)
(* it has three segments: up to the invocation of fetch, from fetch's          *)
(* settlement to the invocation of response.text(), and from there to its end. *)
(* Its locals belong to the activation; this.config is all it shares.          *)

\* What the single-call actions leave alone when activations in flight step.
callVars ==
    <<pc, input, requestBody, bodyJson, signed, fetchArgs, response, returned, thrown,
      steps, fetchCalls, transportError, callsMade, signLog, toolArgs, toolResult>>

FlightQueries ==
    {TestQuery, Query(Str("books"), Undefined, Undefined, Undefined, Undefined)}

FlightInstants == {Instant(2024, 1, 2, 3, 4, 5, 0), Instant(2024, 12, 31, 23, 59, 59, 500)}

FlightReplies ==
    {Response(200, JsonBody(Payload(Undefined, Obj(<<P("Items", Arr(<<TestItem>>))>>),
                                    Str("REQUEST-123")))),
     Response(403, JsonBody(Payload(Arr(<<Obj(<<P("Code", Str("AccessDenied"))>>)>>),
                                    Undefined, Undefined)))}

FlightErrors == {Err("TypeError", "fetch failed")}

\* History: the other activations that are between their start and their end.
InFlightBeside(id) ==
    {j \in (1..MaxFlights) \ {id} : flights[j].pc \in {"awaitFetch", "awaitText"}}

\* searchProducts(q) is invoked as activation id and runs to `await fetch(...)`:
\* the request document, its text, the signed request from the clock reading now,
\* and the invocation of fetch
FlightStart(id, q, now) ==
    /\ flights[id].pc = "idle"
    /\ LET body == buildRequestBody(q)
           json == JSONStringify(body)
           req == buildSignedRequest(json, now)
       IN  flights' =
              [flights EXCEPT ![id] =
                  [pc |-> "awaitFetch", input |-> q, now |-> now,
                   requestBody |-> body, bodyJson |-> json,
                   fetchArgs |-> [endpoint |-> req.endpoint, method |-> "POST",
                                  headers |-> req.headers, body |-> json],
                   response |-> None, returned |-> None, thrown |-> None,
                   overlapped |-> FALSE]]
    /\ UNCHANGED config
    /\ UNCHANGED callVars
    /\ UNCHANGED startupVars

\* fetch resolves to r for activation id, which goes on to await response.text()
FlightFetchResolves(id, r) ==
    /\ flights[id].pc = "awaitFetch"
    /\ flights' = [flights EXCEPT ![id].pc = "awaitText", ![id].response = r]
    /\ UNCHANGED config
    /\ UNCHANGED callVars
    /\ UNCHANGED startupVars

\* fetch rejects with e for activation id
FlightFetchRejects(id, e) ==
    /\ flights[id].pc = "awaitFetch"
    /\ flights' = [flights EXCEPT ![id].pc = "done", ![id].thrown = e]
    /\ UNCHANGED config
    /\ UNCHANGED callVars
    /\ UNCHANGED startupVars

\* Mutant: the reply is kept on the client, where an activation finds the one
\* of whichever activation is waiting for its text.
FlightTextResolves_SharedReply(id) ==
    /\ flights[id].pc = "awaitText"
    /\ \E other \in {j \in 1..MaxFlights : flights[j].pc = "awaitText"} :
       LET outcome == handleReply(flights[other].response, flights[other].response.body)
       IN  flights' =
              [flights EXCEPT
                  ![id].pc = "done",
                  ![id].overlapped = InFlightBeside(id) # {},
                  ![id].returned = IF Threw(outcome) THEN None ELSE outcome,
                  ![id].thrown = IF Threw(outcome) THEN outcome.error ELSE None]
    /\ UNCHANGED config
    /\ UNCHANGED callVars
    /\ UNCHANGED startupVars

\* response.text() resolves for activation id, which runs to its end
FlightTextResolves(id) ==
    /\ flights[id].pc = "awaitText"
    /\ LET outcome == handleReply(flights[id].response, flights[id].response.body)
       IN  flights' =
              [flights EXCEPT
                  ![id].pc = "done",
                  ![id].overlapped = InFlightBeside(id) # {},
                  ![id].returned = IF Threw(outcome) THEN None ELSE outcome,
                  ![id].thrown = IF Threw(outcome) THEN outcome.error ELSE None]
    /\ UNCHANGED config
    /\ UNCHANGED callVars
    /\ UNCHANGED startupVars

NextFlights ==
    \/ \E id \in 1..MaxFlights : \E q \in FlightQueries : \E now \in FlightInstants :
          FlightStart(id, q, now)
    \/ \E id \in 1..MaxFlights : \E r \in FlightReplies : FlightFetchResolves(id, r)
    \/ \E id \in 1..MaxFlights : \E e \in FlightErrors : FlightFetchRejects(id, e)
    \/ \E id \in 1..MaxFlights : FlightTextResolves(id)

SpecFlights == Init /\ [][NextFlights]_vars

-----------------------------------------------------------------------------
(* The start of the process: loadConfig and main *)

\* A text of the environment, kept with its runs of white space and of other
\* characters
EnvText(runs) == [t |-> "string", s |-> Join(runs, ""), runs |-> runs]

IsWhiteSpace(run) == run \in {" ", "\t"}

RECURSIVE TrimStart(_)
TrimStart(runs) ==
    IF runs # <<>> /\ IsWhiteSpace(Head(runs)) THEN TrimStart(Tail(runs)) ELSE runs

RECURSIVE TrimEnd(_)
TrimEnd(runs) ==
    IF runs # <<>> /\ IsWhiteSpace(runs[Len(runs)])
    THEN TrimEnd(SubSeq(runs, 1, Len(runs) - 1))
    ELSE runs

\* String.prototype.trim
trim(v) == Join(TrimEnd(TrimStart(v.runs)), "")

\* .default(d): d stands in for a variable that is not set
withDefault(v, d) == IF v = Undefined THEN d ELSE v

\* The issues of one key, as error.errors lists them
issueList(issues) == IF issues = {} THEN <<>> ELSE <<CHOOSE i \in issues : TRUE>>

\* envSchema.safeParse(env): the issues of every key in the order of the schema's
\* keys, or the data with the host trimmed
envSchema(env) ==
    LET host == withDefault(env.AMAZON_HOST, EnvText(<<"webservices.amazon.com">>))
        issues ==
            issueList(textIssues(<<"AWS_ACCESS_KEY_ID">>, env.AWS_ACCESS_KEY_ID,
                                 "AWS access key id is required", FALSE))
            \o issueList(textIssues(<<"AWS_SECRET_ACCESS_KEY">>,
                                    env.AWS_SECRET_ACCESS_KEY,
                                    "AWS secret access key is required", FALSE))
            \o issueList(textIssues(<<"AMAZON_PARTNER_TAG">>, env.AMAZON_PARTNER_TAG,
                                    "Amazon partner tag is required", FALSE))
            \o issueList(textIssues(<<"AMAZON_REGION">>, env.AMAZON_REGION,
                                    "Amazon region is required", FALSE))
            \o issueList(textIssues(<<"AMAZON_HOST">>, host,
                                    "Amazon host is required", FALSE))
    IN  IF issues # <<>>
        THEN [success |-> FALSE, error |-> [errors |-> issues]]
        ELSE [success |-> TRUE,
              data |-> [AWS_ACCESS_KEY_ID |-> env.AWS_ACCESS_KEY_ID.s,
                        AWS_SECRET_ACCESS_KEY |-> env.AWS_SECRET_ACCESS_KEY.s,
                        AMAZON_PARTNER_TAG |-> env.AMAZON_PARTNER_TAG.s,
                        AMAZON_REGION |-> env.AMAZON_REGION.s,
                        AMAZON_HOST |-> trim(host)]]

\* `${path}: ${issue.message}` of one issue
issueLine(issue) ==
    (IF Join(issue.path, ".") = "" THEN "environment" ELSE Join(issue.path, "."))
        \o ": " \o issue.message

\* Mutant: only the first issue is reported.
loadConfig_FirstIssueOnly(env) ==
    With(envSchema(env),
         LAMBDA parsed :
            IF ~parsed.success
            THEN Throw(Err("Error", "Invalid environment configuration.\n"
                                      \o issueLine(parsed.error.errors[1])))
            ELSE [t |-> "config", value |-> parsed.data])

\* loadConfig(): the AppConfig, or the throw of the Error that lists the issues
loadConfig(env) ==
    With(envSchema(env),
         LAMBDA parsed :
            IF ~parsed.success
            THEN Throw(Err("Error",
                           "Invalid environment configuration.\n"
                             \o Join([i \in 1..Len(parsed.error.errors) |->
                                         issueLine(parsed.error.errors[i])], "\n")))
            ELSE [t |-> "config", value |-> parsed.data])

\* What a variable of the environment may hold: nothing, the empty text, a value
EnvValues(value) == {Undefined, EnvText(<<>>), EnvText(<<value>>)}

\* The hosts an environment may name: as the other variables, or a name between
\* blanks, or blanks alone
EnvHosts ==
    EnvValues(BaseConfig.AMAZON_HOST)
        \cup {EnvText(<<" ", OtherConfig.AMAZON_HOST, " ">>), EnvText(<<" ">>)}

\* process.env as main finds it
Envs ==
    [AWS_ACCESS_KEY_ID : EnvValues(BaseConfig.AWS_ACCESS_KEY_ID),
     AWS_SECRET_ACCESS_KEY : EnvValues(BaseConfig.AWS_SECRET_ACCESS_KEY),
     AMAZON_PARTNER_TAG : EnvValues(BaseConfig.AMAZON_PARTNER_TAG),
     AMAZON_REGION : EnvValues(BaseConfig.AMAZON_REGION),
     AMAZON_HOST : EnvHosts]

\* What server.connect may reject with
ConnectErrors == {Err("Error", "transport failed to start")}

\* The process before main runs, in the environment env; with process.exitCode
\* not set the process would exit with 0
Booting(env) ==
    [pc |-> "main", env |-> env, config |-> None, server |-> None, client |-> FALSE,
     tools |-> {}, transport |-> FALSE, connectCalls |-> 0, connected |-> FALSE,
     error |-> None, logged |-> None, exitCode |-> 0, trace |-> <<>>]

\* No client exists yet; main is about to run.
InitMain ==
    /\ config = None
    /\ pc = "idle"
    /\ input = None
    /\ requestBody = None
    /\ bodyJson = None
    /\ signed = None
    /\ fetchArgs = None
    /\ response = None
    /\ returned = None
    /\ thrown = None
    /\ steps = <<>>
    /\ fetchCalls = 0
    /\ transportError = None
    /\ callsMade = 0
    /\ signLog = {}
    /\ toolArgs = None
    /\ toolResult = None
    /\ flights = [id \in 1..MaxFlights |-> Idle]
    /\ \E env \in Envs : startup = Booting(env)

\* const config = loadConfig(); a throw rejects main's promise
MainLoadConfig ==
    /\ startup.pc = "main"
    /\ LET loaded == loadConfig(startup.env)
       IN  startup' =
              IF Threw(loaded)
              THEN [startup EXCEPT !.pc = "catch", !.error = loaded.error,
                                   !.trace = Append(@, "loadConfig")]
              ELSE [startup EXCEPT !.pc = "server", !.config = loaded.value,
                                   !.trace = Append(@, "loadConfig")]
    /\ UNCHANGED config
    /\ UNCHANGED callVars
    /\ UNCHANGED flightVars

\* const server = new McpServer({ name, version })
MainCreateServer ==
    /\ startup.pc = "server"
    /\ startup' = [startup EXCEPT !.pc = "client",
                                  !.server = [name |-> "amazon-shopping-mcp",
                                              version |-> "0.1.0"],
                                  !.trace = Append(@, "McpServer")]
    /\ UNCHANGED config
    /\ UNCHANGED callVars
    /\ UNCHANGED flightVars

\* const client = new AmazonClient(config)
MainCreateClient ==
    /\ startup.pc = "client"
    /\ config' = startup.config
    /\ startup' = [startup EXCEPT !.pc = "register", !.client = TRUE,
                                  !.trace = Append(@, "AmazonClient")]
    /\ UNCHANGED callVars
    /\ UNCHANGED flightVars

\* registerSearchProductsTool(server, client)
MainRegisterTool ==
    /\ startup.pc = "register"
    /\ startup' = [startup EXCEPT !.pc = "connect",
                                  !.tools = @ \cup {"search_products"},
                                  !.trace = Append(@, "registerSearchProductsTool")]
    /\ UNCHANGED config
    /\ UNCHANGED callVars
    /\ UNCHANGED flightVars

\* const transport = new StdioServerTransport(); server.connect(transport) is
\* invoked and awaited
MainConnect ==
    /\ startup.pc = "connect"
    /\ startup' = [startup EXCEPT !.pc = "awaitConnect", !.transport = TRUE,
                                  !.connectCalls = @ + 1,
                                  !.trace = Append(@, "connect")]
    /\ UNCHANGED config
    /\ UNCHANGED callVars
    /\ UNCHANGED flightVars

\* server.connect resolves: main's promise resolves, the server serves
ConnectResolves ==
    /\ startup.pc = "awaitConnect"
    /\ startup' = [startup EXCEPT !.pc = "serving", !.connected = TRUE]
    /\ UNCHANGED config
    /\ UNCHANGED callVars
    /\ UNCHANGED flightVars

\* server.connect rejects with e: main's promise rejects
ConnectRejects(e) ==
    /\ startup.pc = "awaitConnect"
    /\ startup' = [startup EXCEPT !.pc = "catch", !.error = e]
    /\ UNCHANGED config
    /\ UNCHANGED callVars
    /\ UNCHANGED flightVars

\* main().catch(...): the error is logged and process.exitCode becomes 1
MainCatch ==
    /\ startup.pc = "catch"
    /\ startup' = [startup EXCEPT !.pc = "failed",
                                  !.logged = <<"Failed to start Amazon MCP server:",
                                               startup.error>>,
                                  !.exitCode = 1]
    /\ UNCHANGED config
    /\ UNCHANGED callVars
    /\ UNCHANGED flightVars

\* What runs without waiting for anything outside the process: main's statements
\* up to its await, and the handler of its rejection
MainRuns ==
    \/ MainLoadConfig
    \/ MainCreateServer
    \/ MainCreateClient
    \/ MainRegisterTool
    \/ MainConnect
    \/ MainCatch

NextMain ==
    \/ MainLoadConfig
    \/ MainCreateServer
    \/ MainCreateClient
    \/ MainRegisterTool
    \/ MainConnect
    \/ ConnectResolves
    \/ \E e \in ConnectErrors : ConnectRejects(e)
    \/ MainCatch

\* The event loop runs main's statements and the rejection handler; whether
\* connect settles is left to the transport.
SpecMain == InitMain /\ [][NextMain]_vars /\ WF_vars(MainRuns)

-----------------------------------------------------------------------------
(* What the claims speak of *)

\* The call has settled after reading its reply (the transport did not fail).
Handled == pc = "done" /\ transportError = None

\* The reply's body is a non-empty text that is valid JSON.
BodyIsJson == "json" \in DOMAIN response.body

\* The reply as parsed: the JSON value, the empty object for an empty body.
ParsedReply ==
    IF BodyIsJson THEN response.body.json ELSE Obj(<<>>)

ReplyErrors == PropValue(ParsedReply.o, "Errors")

HasErrorList == ReplyErrors.t = "array" /\ Len(ReplyErrors.a) > 0

\* The reply's SearchResult.Items as a sequence, empty when absent.
ReplyItems ==
    LET sr == PropValue(ParsedReply.o, "SearchResult")
        items == IF sr.t = "object" THEN PropValue(sr.o, "Items") ELSE Undefined
    IN  IF items.t = "array" THEN items.a ELSE <<>>

\* "<Code>: <Message>" for one entry of an error list
RenderEntry(e) ==
    (IF "Code" \in Keys(e.o) THEN PropValue(e.o, "Code").s ELSE "UnknownCode")
      \o ": "
      \o (IF "Message" \in Keys(e.o) THEN PropValue(e.o, "Message").s
          ELSE "Unknown error from Amazon Product Advertising API")

RECURSIVE RenderErrors(_)
\* The entries of a non-empty error list, rendered and joined in list order
RenderErrors(list) ==
    IF Len(list) = 1 THEN RenderEntry(list[1])
    ELSE RenderErrors(SubSeq(list, 1, Len(list) - 1)) \o "; "
           \o RenderEntry(list[Len(list)])

ParseFailureMessages ==
    {"Unable to parse Amazon API response as JSON: " \o m :
        m \in {"Unexpected end of JSON input", "Unexpected token in JSON at position 0"}}

StatusMessage == "Amazon API responded with status " \o ToString(response.status)

-----------------------------------------------------------------------------
(* The claims *)

\* C1: whenever the reply parses as JSON and carries a non-empty Errors list, the
\* call fails for every HTTP status, and the error's message is exactly the
\* entries rendered "<Code>: <Message>", joined in list order by "; ", with
\* UnknownCode for a missing Code and a generic message for a missing Message.
C1_ErrorListRejects ==
    (Handled /\ BodyIsJson /\ HasErrorList)
        => /\ returned = None
           /\ thrown # None
           /\ thrown.message = RenderErrors(ReplyErrors.a)

\* C1's case: a success status, two entries, the first without a Code.
C1_Witness ==
    /\ Handled /\ BodyIsJson /\ HasErrorList
    /\ response.ok
    /\ Len(ReplyErrors.a) = 2
    /\ "Code" \notin Keys(ReplyErrors.a[1].o)
    /\ thrown # None

\* C2 as stated: every body that is not valid JSON text, the empty body included,
\* makes the call fail with the parse error, for every HTTP status.
C2_AsStated ==
    (Handled /\ ~BodyIsJson)
        => /\ returned = None
           /\ thrown # None
           /\ thrown.message \in ParseFailureMessages

\* C2, amended: every non-empty body that is not valid JSON text makes the call
\* fail with the parse error, for every HTTP status, and no result is returned;
\* an empty body is read as the empty reply {}: an empty product list under a
\* success status, the status error under any other.
C2_UnparsableRejects ==
    /\ (Handled /\ ~BodyIsJson /\ response.body # EmptyBody)
          => /\ returned = None
             /\ thrown # None
             /\ thrown.message \in ParseFailureMessages
    /\ (Handled /\ response.body = EmptyBody)
          => IF response.ok
             THEN thrown = None /\ returned = Obj(<<P("products", Arr(<<>>))>>)
             ELSE returned = None /\ thrown # None /\ thrown.message = StatusMessage

\* C2's case: the text not-json under a non-success status.
C2_Witness ==
    /\ Handled
    /\ response.body = TextBody("not-json")
    /\ ~response.ok
    /\ thrown # None

\* C3: whenever the status is non-success and the parsed reply has no Errors list
\* or an empty one, the call fails with an error whose message states the status
\* code; a non-success status never yields a result, items or not.
C3_StatusRejects ==
    /\ (Handled /\ ~response.ok) => (returned = None /\ thrown # None)
    /\ (Handled /\ ~response.ok /\ (BodyIsJson \/ response.body = EmptyBody)
          /\ ~HasErrorList)
          => thrown.message = StatusMessage

\* C3's case: a non-success status, no error list, and items in the reply.
C3_Witness ==
    /\ Handled /\ BodyIsJson /\ ~HasErrorList
    /\ response.status = 500
    /\ Len(ReplyItems) > 0
    /\ thrown # None /\ thrown.message = "Amazon API responded with status 500"

\* C4: a call ends in exactly one of a complete result and a thrown error, never
\* both and never a partial product list; an error the transport rejected with
\* (from fetch or from reading the body) reaches the caller as that same value.
C4_OneOutcome ==
    /\ (pc # "done") => (returned = None /\ thrown = None)
    /\ (pc = "done") => ((returned = None) # (thrown = None))
    /\ (pc = "done" /\ returned # None)
          => /\ PropValue(returned.o, "products").t = "array"
             /\ Len(PropValue(returned.o, "products").a) = Len(ReplyItems)
    /\ (transportError # None) => (returned = None /\ thrown = transportError)

\* C4's case: reading the body rejected, after fetch had resolved.
C4_Witness ==
    /\ pc = "done"
    /\ response # None
    /\ transportError \in TransportErrors
    /\ thrown = transportError

\* C5 as stated: under a success status and without an error list, an Items list
\* holding a malformed item (a field missing or of the wrong shape, or the item
\* not an object at all) still yields a result; the malformed item never makes the
\* call throw, and every other item is mapped as it would be alone.
C5_MalformedItemTolerated ==
    (Handled /\ response.ok /\ (BodyIsJson \/ response.body = EmptyBody)
       /\ ~HasErrorList)
        => /\ thrown = None
           /\ returned # None
           /\ \A i \in 1..Len(ReplyItems) :
                 ReplyItems[i].t = "object"
                    => PropValue(returned.o, "products").a[i] = normalizeItem(ReplyItems[i])

\* The ASIN an item of the reply carries: undefined for an item without one.
ItemASIN(item) == IF item.t = "object" THEN PropValue(item.o, "ASIN") ELSE Undefined

\* C6: on a successful call, products has exactly as many entries as the reply's
\* SearchResult.Items, the i-th product's asin being the i-th item's ASIN; with
\* SearchResult or Items absent or empty the call succeeds with no products.
C6_ItemsInOrder ==
    /\ (Handled /\ returned # None)
          => LET products == PropValue(returned.o, "products").a
             IN  /\ Len(products) = Len(ReplyItems)
                 /\ \A i \in 1..Len(products) :
                       PropValue(products[i].o, "asin") = ItemASIN(ReplyItems[i])
    /\ (Handled /\ response.ok /\ (BodyIsJson \/ response.body = EmptyBody)
          /\ ~HasErrorList /\ Len(ReplyItems) = 0)
          => /\ thrown = None
             /\ returned # None
             /\ PropValue(returned.o, "products") = Arr(<<>>)

\* C6's case: a result for two items with different ASINs, in the reply's order.
C6_Witness ==
    /\ Handled /\ returned # None
    /\ Len(ReplyItems) = 2
    /\ ItemASIN(ReplyItems[1]) = Str("B0OTHER456")
    /\ ItemASIN(ReplyItems[2]) = Str("B0TEST123")
    /\ PropValue(PropValue(returned.o, "products").a[1].o, "asin") = Str("B0OTHER456")

StepOrder == <<"build", "serialize", "sign", "fetch", "normalize">>

\* C7: a call performs its steps in the order build, serialize, sign, invoke the
\* transport, normalize, and invokes the transport exactly once: no second
\* invocation after a failure, and no normalization before the transport replied.
C7_StepsInOrderOneFetch ==
    /\ Len(steps) <= Len(StepOrder)
    /\ steps = SubSeq(StepOrder, 1, Len(steps))
    /\ fetchCalls = (IF Len(steps) >= 4 THEN 1 ELSE 0)
    /\ (pc = "done") => (fetchCalls = 1)
    /\ (Len(steps) = 5) => (response # None /\ transportError = None)
    /\ (fetchArgs # None)
          => /\ requestBody # None /\ bodyJson # None /\ signed # None
             /\ fetchArgs.body = bodyJson.s
             /\ fetchArgs.headers = signed.headers

\* C7's case: fetch rejected, and the call ended having invoked it once.
C7_Witness ==
    /\ pc = "done"
    /\ transportError # None
    /\ response = None
    /\ fetchCalls = 1
    /\ steps = SubSeq(StepOrder, 1, 4)

\* The request document has been built.
Built == requestBody # None

HasKey(k) == k \in Keys(requestBody.o)

\* What every request document holds, whatever the query.
FixedPart ==
    /\ PropValue(requestBody.o, "Keywords") = input.keywords
    /\ PropValue(requestBody.o, "PartnerTag") = Str(config.AMAZON_PARTNER_TAG)
    /\ PropValue(requestBody.o, "PartnerType") = Str("Associates")
    /\ PropValue(requestBody.o, "Resources")
          = Arr(<<Str("Images.Primary.Small"), Str("Images.Primary.Medium"),
                  Str("ItemInfo.Title"), Str("ItemInfo.ByLineInfo"),
                  Str("Offers.Listings.Price"), Str("CustomerReviews.Count"),
                  Str("CustomerReviews.StarRating")>>)

Supplied(v) == v # Undefined

\* C8 as stated: each of SearchIndex, SortBy, MinPrice, MaxPrice is in the document
\* if and only if the query field was supplied.
C8_AsStated ==
    Built
        => /\ FixedPart
           /\ HasKey("SearchIndex") <=> Supplied(input.category)
           /\ HasKey("SortBy") <=> Supplied(input.sortBy)
           /\ HasKey("MinPrice") <=> Supplied(input.minPrice)
           /\ HasKey("MaxPrice") <=> Supplied(input.maxPrice)

\* C8, amended: for every query, one with minPrice > maxPrice included, the
\* builder produces a document with Keywords the query's keywords, PartnerTag from
\* the configuration, PartnerType 'Associates' and the fixed Resources list;
\* MinPrice and MaxPrice are present exactly when the price was supplied;
\* SearchIndex and SortBy are present exactly when category and sortBy were
\* supplied as non-empty text, and then pass it through unchanged.
C8_DocumentFields ==
    Built
        => /\ requestBody.t = "object"
           /\ FixedPart
           /\ HasKey("SearchIndex") <=> (Supplied(input.category) /\ input.category # Str(""))
           /\ HasKey("SearchIndex") => PropValue(requestBody.o, "SearchIndex") = input.category
           /\ HasKey("SortBy") <=> (Supplied(input.sortBy) /\ input.sortBy # Str(""))
           /\ HasKey("SortBy") => PropValue(requestBody.o, "SortBy") = input.sortBy
           /\ HasKey("MinPrice") <=> Supplied(input.minPrice)
           /\ HasKey("MaxPrice") <=> Supplied(input.maxPrice)

\* C8's case: minPrice above maxPrice, both in the document, and an empty category.
C8_Witness ==
    /\ Built
    /\ Supplied(input.minPrice) /\ Supplied(input.maxPrice)
    /\ input.minPrice.n > input.maxPrice.n
    /\ HasKey("MinPrice") /\ HasKey("MaxPrice")
    /\ input.category = Str("")
    /\ ~HasKey("SearchIndex")

\* v is the minor-unit value of the amount a: a non-negative integer, the nearest
\* to a * 100 (a tie going up), 0 when that is negative.  Both are in thousandths.
IsMinorUnitsOf(v, a) ==
    /\ IsFinite(v)
    /\ v.n >= 0
    /\ v.n % 1000 = 0
    /\ LET c == v.n \div 1000
       IN  /\ IF a.n < -5 THEN c = 0 ELSE (a.n - 5 < 10 * c /\ 10 * c <= a.n + 5)
           /\ (a.n = 19999) => (c = 2000)
           /\ (a.n = -5000) => (c = 0)
           /\ (a.n = 0) => (c = 0)
           /\ (a.n = 12340) => (c = 1234)
           /\ (a.n = 199990) => (c = 19999)

\* C9: the price-to-minor-units conversion is max(0, round(amount * 100)), so every
\* MinPrice and MaxPrice of a request is a non-negative integer; 19.999 gives 2000,
\* -5 gives 0, 0 gives 0, 12.34 gives 1234 and 199.99 gives 19999.
C9_MinorUnits ==
    Built
        => /\ Supplied(input.minPrice)
                => IsMinorUnitsOf(PropValue(requestBody.o, "MinPrice"), input.minPrice)
           /\ Supplied(input.maxPrice)
                => IsMinorUnitsOf(PropValue(requestBody.o, "MaxPrice"), input.maxPrice)

\* C9's case: 19.999 rounded up to 2000 and -5 clamped to 0 in one document.
C9_Witness ==
    /\ Built
    /\ input.minPrice = Num(19999)
    /\ PropValue(requestBody.o, "MinPrice") = Num(2000 * 1000)
    /\ input.maxPrice = Num(-5000)
    /\ PropValue(requestBody.o, "MaxPrice") = Num(0)

SignedHeaderNames ==
    <<"content-encoding", "content-type", "host", "x-amz-date", "x-amz-target">>

\* The day of a clock reading as YYYYMMDD, and the reading as YYYYMMDDTHHMMSSZ.
DayText(now) == IF now.month = 1 THEN "20240102" ELSE "20241231"
SecondText(now) == IF now.month = 1 THEN "20240102T030405Z" ELSE "20241231T235959Z"

\* C11: for every request, the Authorization header is 'AWS4-HMAC-SHA256
\* Credential=<accessKey>/<dateStamp>/<region>/<service>/aws4_request,
\* SignedHeaders=<list>, Signature=<hex digest of the HMAC>', the signed-headers
\* list is always content-encoding;content-type;host;x-amz-date;x-amz-target, and
\* the canonical header block lists the same five headers in the same order,
\* whatever the query and the configuration.
C11_AuthorizationForm ==
    \A e \in signLog :
        /\ e.headers.Authorization
              = "AWS4-HMAC-SHA256 Credential=" \o config.AWS_ACCESS_KEY_ID \o "/"
                  \o DayText(e.now) \o "/" \o config.AMAZON_REGION
                  \o "/ProductAdvertisingAPI/aws4_request, "
                  \o "SignedHeaders=content-encoding;content-type;host;x-amz-date;x-amz-target, "
                  \o "Signature=" \o e.locals.signature
        /\ e.locals.signature = hmacHex(e.locals.signingKey, e.locals.stringToSign)
        /\ e.locals.signedHeaders
              = "content-encoding;content-type;host;x-amz-date;x-amz-target"
        /\ [i \in 1..Len(e.locals.canonicalHeadersList) |->
                e.locals.canonicalHeadersList[i][1]] = SignedHeaderNames
        /\ e.locals.canonicalHeaders
              = "content-encoding:amz-1.0\n"
                  \o "content-type:application/json; charset=UTF-8\n"
                  \o "host:" \o config.AMAZON_HOST \o "\n"
                  \o "x-amz-date:" \o SecondText(e.now) \o "\n"
                  \o "x-amz-target:com.amazon.paapi5.v1.ProductAdvertisingAPIv1.SearchItems\n"

\* C11's case: two requests of one client, for different queries on different
\* days, signed under the second configuration.
C11_Witness ==
    /\ config = OtherConfig
    /\ \E a \in signLog : \E b \in signLog :
          /\ a.body # b.body
          /\ DayText(a.now) # DayText(b.now)
          /\ a.locals.signedHeaders = b.locals.signedHeaders
          /\ a.headers.Authorization # b.headers.Authorization

RECURSIVE At(_, _)
\* The value found in v by following the property names of path; undefined where
\* the way leads through something that is not an object.
At(v, path) ==
    IF Len(path) = 0 THEN v
    ELSE IF v.t = "object" THEN At(PropValue(v.o, Head(path)), Tail(path))
    ELSE Undefined

\* The call returned a result for a reply of one item: the item, its product.
OneProduct ==
    /\ Handled /\ returned # None
    /\ Len(ReplyItems) = 1
    /\ PropValue(returned.o, "products").t = "array"
    /\ Len(PropValue(returned.o, "products").a) = 1

TheItem == ReplyItems[1]
TheProduct == PropValue(returned.o, "products").a[1]

\* The item's listings, and its first listing.
TheListings ==
    LET l == At(TheItem, <<"Offers", "Listings">>) IN IF l.t = "array" THEN l.a ELSE <<>>

FirstListing == IF Len(TheListings) > 0 THEN TheListings[1] ELSE Undefined

NonEmptyText(v) == v.t = "string" /\ v.s # ""

\* C12: a product has a price if and only if the item's first offer listing has a
\* non-empty display-amount string; later listings are never consulted; the
\* price's display is that string, and amount and currency appear in it only when
\* the first listing supplies them (amount only when it is a finite number), with
\* the values the listing gives.
C12_PriceFromFirstListing ==
    OneProduct
        => LET price == PropValue(TheProduct.o, "price")
               display == At(FirstListing, <<"Price", "DisplayAmount">>)
               amount == At(FirstListing, <<"Price", "Amount">>)
               currency == At(FirstListing, <<"Price", "Currency">>)
           IN  /\ ("price" \in Keys(TheProduct.o)) <=> NonEmptyText(display)
               /\ ("price" \in Keys(TheProduct.o))
                     => /\ price.t = "object"
                        /\ PropValue(price.o, "display") = display
                        /\ Keys(price.o) \subseteq {"display", "amount", "currency"}
                        /\ ("amount" \in Keys(price.o))
                              => /\ amount.t = "number" /\ "n" \in DOMAIN amount
                                 /\ PropValue(price.o, "amount") = amount
                        /\ ("currency" \in Keys(price.o))
                              => /\ NonEmptyText(currency)
                                 /\ PropValue(price.o, "currency") = currency

\* C12's case: the first listing has no display amount, the second has a full
\* price, and the product has no price.
C12_Witness ==
    /\ OneProduct
    /\ Len(TheListings) = 2
    /\ FirstListing.t = "object"
    /\ ~NonEmptyText(At(FirstListing, <<"Price", "DisplayAmount">>))
    /\ NonEmptyText(At(TheListings[2], <<"Price", "DisplayAmount">>))
    /\ "price" \notin Keys(TheProduct.o)

\* The number a provider value denotes: the value when it is a finite number, the
\* number written when it is a numeric text, undefined otherwise (absent, null,
\* the empty text, a text that is no number).
NumericValue(v) ==
    IF v.t = "number" /\ "n" \in DOMAIN v THEN v
    ELSE IF v = Str("4.6") THEN Num(4600)
    ELSE IF v = Str("7.5") THEN Num(7500)
    ELSE IF v = Str("321") THEN Num(321000)
    ELSE IF v = Str("321.5") THEN Num(321500)
    ELSE IF v = Str("84") THEN Num(84000)
    ELSE IF v = Str("-3") THEN Num(-3000)
    ELSE Undefined

\* The provider value the review count is taken from: TotalReviewCount, Count when
\* TotalReviewCount is absent.
ReviewSource ==
    LET total == At(TheItem, <<"CustomerReviews", "TotalReviewCount">>)
    IN  IF total \in {Undefined, Null}
        THEN At(TheItem, <<"CustomerReviews", "Count">>) ELSE total

\* n (in thousandths) is a whole number nearest to m.
NearestInteger(n, m) == n % 1000 = 0 /\ n - m <= 500 /\ m - n <= 500

\* C13 as stated: rating and totalReviews are the numbers their provider values
\* denote (a number or a numeric text) and are omitted whenever the value is
\* absent, not numeric or not finite; totalReviews is rounded to an integer and is
\* taken from TotalReviewCount, from Count only when TotalReviewCount is absent.
C13_RatingAndReviews ==
    OneProduct
        => LET star == NumericValue(At(TheItem, <<"CustomerReviews", "StarRating">>))
               count == NumericValue(ReviewSource)
           IN  /\ ("rating" \in Keys(TheProduct.o)) <=> (star # Undefined)
               /\ ("rating" \in Keys(TheProduct.o))
                     => PropValue(TheProduct.o, "rating") = star
               /\ ("totalReviews" \in Keys(TheProduct.o)) <=> (count # Undefined)
               /\ ("totalReviews" \in Keys(TheProduct.o))
                     => /\ PropValue(TheProduct.o, "totalReviews").t = "number"
                        /\ NearestInteger(PropValue(TheProduct.o, "totalReviews").n, count.n)

\* C14 as stated: in every result, for every reply, each product's rating, when
\* present, lies between 0 and 5 inclusive, and each product's totalReviews, when
\* present, is a whole number that is not negative.
C14_RatingAndReviewsInRange ==
    (Handled /\ returned # None)
        => \A i \in 1..Len(PropValue(returned.o, "products").a) :
              LET product == PropValue(returned.o, "products").a[i]
                  rating == PropValue(product.o, "rating")
                  totalReviews == PropValue(product.o, "totalReviews")
              IN  /\ ("rating" \in Keys(product.o))
                        => /\ rating.t = "number" /\ "n" \in DOMAIN rating
                           /\ 0 <= rating.n /\ rating.n <= 5000
                  /\ ("totalReviews" \in Keys(product.o))
                        => /\ totalReviews.t = "number" /\ "n" \in DOMAIN totalReviews
                           /\ totalReviews.n % 1000 = 0
                           /\ totalReviews.n >= 0

\* The URLs present among the item's medium, small and large primary images, in
\* that order; a URL that is missing, null or the empty text is not present.
PresentImageUrls ==
    SelectSeq(<<At(TheItem, <<"Images", "Primary", "Medium", "URL">>),
                At(TheItem, <<"Images", "Primary", "Small", "URL">>),
                At(TheItem, <<"Images", "Primary", "Large", "URL">>)>>,
              NonEmptyText)

\* C15 as stated: the product's imageUrl is the first present URL among the medium,
\* small and large primary images, in that order, and is absent only when none of
\* the three is present: an item whose medium URL is missing or empty but whose
\* small or large URL is present still gets an imageUrl.
C15_FirstPresentImage ==
    OneProduct
        => /\ ("imageUrl" \in Keys(TheProduct.o)) <=> (Len(PresentImageUrls) > 0)
           /\ ("imageUrl" \in Keys(TheProduct.o))
                 => PropValue(TheProduct.o, "imageUrl") = PresentImageUrls[1]

\* C16 as stated: every product of a returned result has both asin and title as
\* text: asin is the item's ASIN, and title is the item's display title when
\* present and the product's asin otherwise.
C16_AsinAndTitleText ==
    OneProduct
        => LET asin == PropValue(TheProduct.o, "asin")
               title == PropValue(TheProduct.o, "title")
               displayTitle == At(TheItem, <<"ItemInfo", "Title", "DisplayValue">>)
           IN  /\ asin.t = "string"
               /\ title.t = "string"
               /\ asin = At(TheItem, <<"ASIN">>)
               /\ title = (IF displayTitle \in {Undefined, Null} THEN asin ELSE displayTitle)

\* The arguments pass the validator's rules: keywords a non-empty text; category,
\* when given, a non-empty text; each price, when given, a number not below 0;
\* minPrice not above maxPrice when both are given; sortBy, when given, one of the
\* supported keys; no unknown key.
ArgsValid(a) ==
    /\ a.keywords.t = "string" /\ a.keywords.s # ""
    /\ a.category = Undefined \/ (a.category.t = "string" /\ a.category.s # "")
    /\ a.minPrice = Undefined
          \/ (a.minPrice.t = "number" /\ "n" \in DOMAIN a.minPrice /\ a.minPrice.n >= 0)
    /\ a.maxPrice = Undefined
          \/ (a.maxPrice.t = "number" /\ "n" \in DOMAIN a.maxPrice /\ a.maxPrice.n >= 0)
    /\ (a.minPrice.t = "number" /\ a.maxPrice.t = "number")
          => a.minPrice.n <= a.maxPrice.n
    /\ a.sortBy \in {Undefined, Str("Featured"), Str("Price:LowToHigh"),
                      Str("Price:HighToLow"), Str("NewestArrivals"),
                      Str("AvgCustomerReviews")}
    /\ a.extra = Undefined

\* C17: the handler calls the client's searchProducts only after the arguments
\* passed the validator, and with exactly the validated input; arguments with
\* minPrice above maxPrice, a negative price, empty keywords, an unsupported sortBy
\* or an unknown key make the handler fail with no client call and no transport
\* call.
C17_ValidatedBeforeCall ==
    (toolArgs # None)
        => /\ (callsMade > 0)
                => /\ ArgsValid(toolArgs)
                   /\ callsMade = 1
                   /\ input = [keywords |-> toolArgs.keywords,
                               category |-> toolArgs.category,
                               sortBy |-> toolArgs.sortBy,
                               minPrice |-> toolArgs.minPrice,
                               maxPrice |-> toolArgs.maxPrice]
           /\ (~ArgsValid(toolArgs))
                => /\ callsMade = 0
                   /\ fetchCalls = 0
                   /\ fetchArgs = None
                   /\ pc = "toolDone"
                   /\ "rejected" \in DOMAIN toolResult
                   /\ toolResult.rejected.name = "ZodError"
           /\ ArgsValid(toolArgs) => callsMade = 1

\* C17's case: arguments whose only fault is minPrice above maxPrice; the handler
\* failed and no call was made.
C17_Witness ==
    /\ toolArgs # None
    /\ toolArgs.keywords = Str("tablet")
    /\ toolArgs.minPrice = Num(199990)
    /\ toolArgs.maxPrice = Num(12340)
    /\ toolArgs.extra = Undefined
    /\ toolArgs.sortBy = Str("Featured")
    /\ toolArgs.category = Undefined
    /\ pc = "toolDone"
    /\ "rejected" \in DOMAIN toolResult
    /\ callsMade = 0
    /\ fetchCalls = 0

\* C18: with the configuration held fixed and hash and HMAC free of collisions,
\* two signed requests whose bodies differ have different signatures, and two
\* whose clock readings render to different timestamps of second granularity
\* differ in both the date header and the signature.
C18_SignatureSensitive ==
    \A a \in signLog : \A b \in signLog :
        /\ (a.body # b.body) => (a.locals.signature # b.locals.signature)
        /\ (SecondText(a.now) # SecondText(b.now))
              => /\ a.headers.XAmzDate # b.headers.XAmzDate
                 /\ a.locals.signature # b.locals.signature

\* C18's case: one client signed two different bodies at the same clock reading,
\* and one body at two readings of different seconds.
C18_Witness ==
    /\ \E a \in signLog : \E b \in signLog :
          a.body # b.body /\ a.now = b.now /\ a.locals.signature # b.locals.signature
    /\ \E a \in signLog : \E b \in signLog :
          /\ a.body = b.body
          /\ SecondText(a.now) # SecondText(b.now)
          /\ a.locals.signature # b.locals.signature

\* chars is a timestamp of the form YYYYMMDDTHHMMSSZ.
IsAmzDate(chars) ==
    /\ Len(chars) = 16
    /\ \A i \in (1..8) \cup (10..15) : chars[i] \in {Digits[d] : d \in 1..10}
    /\ chars[9] = "T"
    /\ chars[16] = "Z"

\* C19: within one signed request one clock reading is used throughout: the
\* X-Amz-Date header has the form YYYYMMDDTHHMMSSZ, with no separators and no
\* milliseconds; the timestamp in the string to sign and in the signed x-amz-date
\* header is that same value; the date of the credential scope and of the
\* signing-key derivation is exactly its first 8 characters.
C19_OneClockReading ==
    \A e \in signLog :
        LET day == Join(SubSeq(e.locals.amzDateChars, 1, 8), "")
        IN  /\ IsAmzDate(e.locals.amzDateChars)
            /\ e.headers.XAmzDate = Join(e.locals.amzDateChars, "")
            /\ e.headers.XAmzDate = SecondText(e.now)
            /\ e.locals.stringToSignLines[2] = e.headers.XAmzDate
            /\ e.locals.canonicalHeadersList[4] = <<"x-amz-date", e.headers.XAmzDate>>
            /\ day = DayText(e.now)
            /\ e.locals.credentialScope
                  = day \o "/" \o config.AMAZON_REGION \o "/ProductAdvertisingAPI/aws4_request"
            /\ e.locals.stringToSignLines[3] = e.locals.credentialScope
            /\ e.locals.signingKeyDate = day
            /\ e.locals.signingKey
                  = hmac(hmac(hmac(hmac("AWS4" \o config.AWS_SECRET_ACCESS_KEY, day),
                                   config.AMAZON_REGION),
                              "ProductAdvertisingAPI"),
                         "aws4_request")

\* C19's case: a request signed half a second before the day and the year end.
C19_Witness ==
    \E e \in signLog :
        /\ e.now = Instant(2024, 12, 31, 23, 59, 59, 500)
        /\ e.headers.XAmzDate = "20241231T235959Z"
        /\ e.locals.signingKeyDate = "20241231"

\* What activation f would have sent and got had it run alone: the request made
\* from its own query, the configuration and its own clock reading, and the
\* outcome of its own reply.
SentAlone(f) ==
    LET json == JSONStringify(buildRequestBody(f.input))
        req == buildSignedRequest(json, f.now)
    IN  [endpoint |-> req.endpoint, method |-> "POST", headers |-> req.headers,
         body |-> json]

EndedAlone(f) ==
    LET outcome == handleReply(f.response, f.response.body)
    IN  IF Threw(outcome)
        THEN f.returned = None /\ f.thrown = outcome.error
        ELSE f.returned = outcome /\ f.thrown = None

\* C20: with several searchProducts calls in flight at once on one client and
\* their replies arriving in any order, each call's request and outcome depend
\* only on its own query, the configuration, its own clock reading and its own
\* reply, and equal what the call would give alone; a step of one call leaves
\* every other call's state as it was, and the configuration is never modified.
C20_CallsIsolated ==
    /\ [](\A id \in 1..MaxFlights :
            LET f == flights[id]
            IN  (f.pc # "idle")
                  => /\ f.fetchArgs = SentAlone(f)
                     /\ (f.pc # "done") => (f.returned = None /\ f.thrown = None)
                     /\ (f.pc = "done" /\ f.response = None)
                           => (f.returned = None /\ f.thrown \in FlightErrors)
                     /\ (f.pc = "done" /\ f.response # None) => EndedAlone(f))
    /\ [][/\ config' = config
          /\ \E id \in 1..MaxFlights :
                \A j \in (1..MaxFlights) \ {id} : flights'[j] = flights[j]]_vars

\* C20's case: two calls with different queries and clock readings; the first
\* ended with a result while the second was in flight; the second ended with the
\* provider's error.
C20_Witness ==
    /\ flights[1].pc = "done" /\ flights[2].pc = "done"
    /\ flights[1].input # flights[2].input
    /\ flights[1].now # flights[2].now
    /\ flights[1].overlapped
    /\ flights[1].response.status = 200 /\ flights[1].returned # None
    /\ flights[2].response # None /\ flights[2].response.status = 403
    /\ flights[2].thrown # None /\ flights[2].thrown.message = "AccessDenied: Unknown error from Amazon Product Advertising API"

\* The variables main cannot do without.
RequiredNames ==
    {"AWS_ACCESS_KEY_ID", "AWS_SECRET_ACCESS_KEY", "AMAZON_PARTNER_TAG", "AMAZON_REGION"}

\* The variable is missing from the environment, or empty.
Unset(name) == startup.env[name] = Undefined \/ startup.env[name].s = ""

\* The required variables that are missing or empty.
Offending == {name \in RequiredNames : Unset(name)}

\* What the error says of a variable: nothing when it is set (or a missing host).
Complaint(name, emptyMessage) ==
    IF startup.env[name] = Undefined
    THEN IF name = "AMAZON_HOST" THEN <<>> ELSE <<name \o ": Required">>
    ELSE IF startup.env[name].s = "" THEN <<name \o ": " \o emptyMessage>>
    ELSE <<>>

\* The error's message: a heading, then a line for each variable at fault.
Complaints ==
    "Invalid environment configuration.\n"
      \o Join(Complaint("AWS_ACCESS_KEY_ID", "AWS access key id is required")
              \o Complaint("AWS_SECRET_ACCESS_KEY", "AWS secret access key is required")
              \o Complaint("AMAZON_PARTNER_TAG", "Amazon partner tag is required")
              \o Complaint("AMAZON_REGION", "Amazon region is required")
              \o Complaint("AMAZON_HOST", "Amazon host is required"), "\n")

\* main did the step.
Did(step) == \E i \in 1..Len(startup.trace) : startup.trace[i] = step

\* Whenever main did step b, it had done step a before.
Before(a, b) ==
    \A j \in 1..Len(startup.trace) :
        startup.trace[j] = b => \E i \in 1..(j - 1) : startup.trace[i] = a

\* What holds of every state of the start.
StartupInOrder ==
    /\ Before("loadConfig", "AmazonClient")
    /\ Before("AmazonClient", "registerSearchProductsTool")
    /\ Before("registerSearchProductsTool", "connect")
    /\ Did("AmazonClient") => (startup.config # None /\ config = startup.config)
    /\ Did("connect")
          => /\ startup.config # None
             /\ config = startup.config
             /\ startup.tools = {"search_products"}
    /\ startup.connected => Did("connect")
    /\ (Offending # {})
          => /\ startup.pc \in {"main", "catch", "failed"}
             /\ startup.config = None
             /\ config = None /\ ~startup.client
             /\ startup.tools = {}
             /\ startup.connectCalls = 0 /\ ~startup.connected
             /\ (startup.pc # "main") => startup.error = Err("Error", Complaints)
             /\ (startup.pc = "failed") => startup.exitCode = 1
    /\ (startup.env.AMAZON_HOST = Undefined /\ startup.config # None)
          => startup.config.AMAZON_HOST = "webservices.amazon.com"

\* C21: main connects the server to its transport only after loadConfig returned
\* a configuration, the client was built from that configuration and the search
\* tool was registered, in that order. When the access key id, the secret key,
\* the partner tag or the region is missing or empty, loadConfig throws an error
\* whose message has a line naming each such variable, no client is created, no
\* tool is registered, connect is never invoked, and the exit code becomes 1; a
\* missing host is read as webservices.amazon.com.
C21_StartupOrder ==
    /\ []StartupInOrder
    /\ (Offending # {}) ~> (startup.exitCode = 1)

\* C21's case: the access key id is missing, the region is empty, the host is
\* missing; main has ended with the error naming both and the exit code 1.
C21_Witness ==
    /\ startup.pc = "failed"
    /\ startup.env.AWS_ACCESS_KEY_ID = Undefined
    /\ startup.env.AMAZON_REGION # Undefined /\ startup.env.AMAZON_REGION.s = ""
    /\ startup.env.AWS_SECRET_ACCESS_KEY # Undefined
    /\ startup.env.AWS_SECRET_ACCESS_KEY.s # ""
    /\ startup.env.AMAZON_HOST = Undefined
    /\ startup.error.message =
          "Invalid environment configuration.\nAWS_ACCESS_KEY_ID: Required\nAMAZON_REGION: Amazon region is required"
    /\ startup.exitCode = 1
    /\ config = None

\* The signing the call in progress performed.
Signings == {s \in signLog : s.call = callsMade}

\* C22: the body handed to fetch is the serialized text whose SHA-256 digest is
\* the last line of the canonical request that was signed; fetch is called with
\* https://<configured host>/paapi5/searchitems and the method POST; the host
\* header that was signed carries the host of that endpoint; and the body and
\* the headers handed to fetch are those of the signing, unchanged, the
\* Authorization header being the one made from that canonical request.
C22_SentAsSigned ==
    /\ (pc = "fetch")
          => \E s \in Signings :
                /\ s.body = bodyJson.s
                /\ s.headers = signed.headers
                /\ s.endpoint = signed.endpoint
    /\ (fetchArgs # None)
          => /\ fetchArgs.body = bodyJson.s
             /\ fetchArgs.method = "POST"
             /\ fetchArgs.endpoint
                   = "https://" \o config.AMAZON_HOST \o "/paapi5/searchitems"
             /\ Cardinality(Signings) = 1
             /\ \E s \in Signings :
                   /\ s.body = fetchArgs.body
                   /\ s.headers = fetchArgs.headers
                   /\ s.endpoint = fetchArgs.endpoint
                   /\ s.locals.canonicalRequest
                         = Join(<<"POST", "/paapi5/searchitems", "",
                                  s.locals.canonicalHeaders, s.locals.signedHeaders,
                                  sha256(fetchArgs.body)>>, "\n")
                   /\ s.locals.canonicalHeadersList[3] = <<"host", config.AMAZON_HOST>>
                   /\ s.locals.endpoint
                         = "https://" \o s.locals.canonicalHeadersList[3][2]
                             \o "/paapi5/searchitems"
                   /\ s.locals.canonicalHeadersList[4]
                         = <<"x-amz-date", fetchArgs.headers.XAmzDate>>
                   /\ s.locals.stringToSignLines[4] = sha256(s.locals.canonicalRequest)
                   /\ fetchArgs.headers.Authorization = s.locals.authorizationHeader

\* C22's case: the client of the other marketplace has handed a request with
\* price bounds to fetch, and the reply has arrived.
C22_Witness ==
    /\ fetchArgs # None
    /\ config = OtherConfig
    /\ fetchArgs.endpoint = "https://webservices.amazon.co.uk/paapi5/searchitems"
    /\ HasKey("MinPrice")
    /\ \E s \in Signings : s.body = fetchArgs.body
    /\ response # None

\* The call failed on the parse, on the status, on the error list.
FailedOnParse == thrown # None /\ thrown.message \in ParseFailureMessages
FailedOnStatus == thrown # None /\ thrown.message = StatusMessage
FailedOnErrors ==
    thrown # None /\ HasErrorList /\ thrown.message = RenderErrors(ReplyErrors.a)

\* The body parses: it is valid JSON text, or empty and read as {}.
BodyParses == BodyIsJson \/ response.body = EmptyBody

\* C23: the reply is checked in the order parse, status, error list. A
\* non-empty body that does not parse fails the call with the parse error
\* whatever the status, so never with the status error; a body that parses under
\* a non-success status fails it before any result is built, with the error
\* list when there is a non-empty one and with the status message otherwise;
\* under a success status a non-empty error list fails it. The status message
\* is the error only when the body parsed, the status is non-success and the
\* parsed reply has no non-empty error list.
C23_CheckOrder ==
    Handled
      => /\ ~BodyParses => (FailedOnParse /\ ~FailedOnStatus /\ returned = None)
         /\ (BodyParses /\ ~response.ok)
               => /\ returned = None
                  /\ IF HasErrorList THEN FailedOnErrors /\ ~FailedOnStatus
                     ELSE FailedOnStatus
         /\ (BodyParses /\ response.ok /\ HasErrorList) => FailedOnErrors
         /\ FailedOnStatus => (BodyParses /\ ~response.ok /\ ~HasErrorList)
         /\ FailedOnParse => ~BodyParses

\* C23's case: the text not-json arrived with the status 500, and the call
\* failed with the parse error.
C23_Witness ==
    /\ Handled
    /\ response.body = TextBody("not-json")
    /\ response.status = 500
    /\ thrown # None
    /\ thrown.message
          = "Unable to parse Amazon API response as JSON: Unexpected token in JSON at position 0"

=============================================================================
